---- MODULE Spec2Model ----
(***************************************************************************)
(* A model of the FauxEC echo-cancellation AudioWorklet                    *)
(* (StopCopyingMe/js/noisy-processors/noisyFauxEC.js): the processor's     *)
(* batching and control-message handlers, and the strategies it dispatches *)
(* to.                                                                     *)
(*                                                                         *)
(* Numbers.  A Float32Array is a function on 0..len-1.  A sample is an     *)
(* integer counting steps of 1/FixedOne: the representable values of the   *)
(* model (a store into a Float32Array rounds to the nearest of them, as a  *)
(* store rounds to the nearest float32).  Expressions evaluated in double  *)
(* precision between two stores are evaluated exactly.  Parameters given   *)
(* as fractions in the source are kept in the unit named beside them.      *)
(***************************************************************************)
EXTENDS Integers, Sequences, FiniteSets, TLC

VARIABLES
  proc,        \* the NoisyFauxECProcessor object and its fauxecState
  strategies,  \* this.strategies: the state of the strategy objects
  alive,       \* FALSE once process() has thrown (the node then stays silent)
  ev,          \* what the last handler or process call did (observation)
  hist,        \* the quanta received and emitted since the last dispatch (observation)
  cnt,         \* process calls and messages so far (bounds the exploration)
  env          \* the acoustic path of the echo scenarios: time and true delay

vars == <<proc, strategies, alive, ev, hist, cnt, env>>

\* ------------------------------------------------------------------------
\* Bounds of the exploration
\* ------------------------------------------------------------------------
\* samples per process call (output[0].length): 128 in a browser, scaled
RenderQuantum == 2
\* process calls explored by the control-plane specification
MaxCalls == 3
\* control messages explored by the control-plane specification
MaxMsgs == 2
\* process calls explored by the echo-path specifications
MaxEchoCalls == 60
\* process calls explored by the gate specification
MaxGateCalls == 8
\* process calls explored by the impulse-response specification
MaxRirCalls == 11
\* process calls and control messages explored by the adaptive-filter
\* specification
MaxNlmsCalls == 3
MaxNlmsMsgs == 4
\* process calls and control messages explored by the debug-capture
\* specification
MaxDebugCalls == 17
MaxDebugMsgs == 5
\* process calls and control messages explored by the debug-track
\* specification
MaxTrackCalls == 3
MaxTrackMsgs == 5
\* process calls and control messages explored by the delay-search
\* specification
MaxSearchCalls == 4
MaxSearchMsgs == 3
\* process calls explored by the adaptation specification
MaxAdaptCalls == 4
\* process calls explored by the search-grid specification
MaxGridCalls == 60
\* process calls explored by the trimming specification
MaxTrimCalls == 30

\* ------------------------------------------------------------------------
\* Numeric model
\* ------------------------------------------------------------------------
\* the AudioWorkletGlobalScope global sampleRate (Hz): fixed by the environment
\* when the worklet starts
sampleRate == env.sampleRate
\* 1.0 as a sample: samples are multiples of 1/FixedOne
FixedOne == 10
\* 1.0 as a filter coefficient: the coefficient arrays (an impulse response,
\* the adaptive filter) are kept to 1/CoefOne
CoefOne == 1000

Max(a, b) == IF a >= b THEN a ELSE b
Min(a, b) == IF a <= b THEN a ELSE b
Abs(a) == IF a >= 0 THEN a ELSE -a
Sign(a) == IF a > 0 THEN 1 ELSE IF a < 0 THEN -1 ELSE 0

\* JavaScript's % takes the sign of the dividend
JsMod(a, b) ==
  LET m == IF b < 0 THEN -b ELSE b
  IN IF a >= 0 THEN a % m ELSE -((-a) % m)

\* a / b rounded to the nearest integer (b > 0)
RoundDiv(a, b) == (2 * a + b) \div (2 * b)

RECURSIVE Gcd(_, _)
Gcd(a, b) == IF b = 0 THEN a ELSE Gcd(b, a % b)

\* Math.floor(sampleRate * ms / 1000)
MsToSamples(ms) == (sampleRate * ms) \div 1000

\* new Float32Array(n): n zeros, indexed from 0
Float32Array(n) == [i \in 0..(n - 1) |-> 0]
Len0(a) == Cardinality(DOMAIN a)
\* a[i] = v; a typed array ignores a store outside its bounds
Store(a, i, v) == IF i \in DOMAIN a THEN [a EXCEPT ![i] = v] ELSE a
\* a.slice(from, from + n), reindexed from 0
Slice(a, from, n) == [i \in 0..(n - 1) |-> a[from + i]]

\* Object.assign(target, source)
ObjectAssign(target, source) ==
  [k \in DOMAIN target \cup DOMAIN source |->
     IF k \in DOMAIN source THEN source[k] ELSE target[k]]

Has(obj, key) == key \in DOMAIN obj

\* _dbToLin(db) = 10^(db/20), in thousandths, for the levels the model uses
_dbToLin(db) ==
  CASE db = 0 -> 1000
    [] db = -6 -> 501
    [] db = -20 -> 100
    [] db = -24 -> 63
    [] db = -40 -> 10
    [] db = -60 -> 1
    [] OTHER -> IF db > 0 THEN 1000 ELSE 0

\* ------------------------------------------------------------------------
\* Trivial strategies: each onFrame returns the output frame
\* ------------------------------------------------------------------------
PassthroughStrategy_onFrame(nSamples, nearEndFrame) ==
  [i \in 0..(nSamples - 1) |-> nearEndFrame[i]]

SilenceMicStrategy_onFrame(nSamples) ==
  [i \in 0..(nSamples - 1) |-> 0]

NaiveSubtractStrategy_onFrame(nSamples, nearEndFrame, farEndFrame) ==
  [i \in 0..(nSamples - 1) |-> nearEndFrame[i] - farEndFrame[i]]

\* 0.1 * Math.sin(880 * k / sampleRate) rounded to a representable value, for
\* k = 0 .. 2 * sampleRate - 1 (the argument is 55 k radians)
ToneSample(k) ==
  <<0, -1, 0, 1, 0, -1, 0, 1, 0, -1, 0, 1, 0, -1, 0, 1,
    0, -1, 0, 1, 0, -1, 0, 1, 1, -1, -1, 1, 1, -1, -1, 1>>[k + 1]

TestToneStrategy_onFrame(tone, nSamples, nearEndFrame) ==
  [self |-> [phase |-> (tone.phase + nSamples) % sampleRate],
   out |-> [i \in 0..(nSamples - 1) |-> nearEndFrame[i] + ToneSample(i + tone.phase)]]

\* ------------------------------------------------------------------------
\* XCorrHelper: the delay estimator
\* ------------------------------------------------------------------------
\* echoAttenuation in tenths, smoothingAlpha and nxcThreshold in hundredths
XCorrHelper_getDefaultCfg ==
  [minDelayMs |-> 80, updateIntervalFrames |-> 1000, echoTimeWindowSizeMs |-> 500,
   stepSize |-> 48, txThresholdDb |-> -40, rxThresholdDb |-> -24,
   smoothingAlpha |-> 50, nxcThreshold |-> 55, xcorrWindowSize |-> 1024,
   echoAttenuation |-> 3]

\* A correlation score corr / sqrt(nearE * farE) is kept exactly, as its sign s
\* and its square n / d in lowest terms; inf marks -Infinity.
NccValue(corr, nearE, farE) ==
  IF nearE * farE > 0
    THEN LET g == Gcd(corr * corr, nearE * farE)
         IN  [inf |-> FALSE, s |-> Sign(corr),
              n |-> (corr * corr) \div g, d |-> (nearE * farE) \div g]
    ELSE [inf |-> FALSE, s |-> 0, n |-> 0, d |-> 1]
NegInfinity == [inf |-> TRUE, s |-> -1, n |-> 1, d |-> 1]
NccZero == [inf |-> FALSE, s |-> 0, n |-> 0, d |-> 1]
\* a > b
NccGt(a, b) ==
  IF a.inf THEN FALSE
  ELSE IF b.inf THEN TRUE
  ELSE a.s * a.n * b.d > b.s * b.n * a.d
\* a < t / 100
NccBelow(a, t) ==
  IF a.inf THEN TRUE ELSE a.s * a.n * 10000 < Sign(t) * t * t * a.d

XCorrHelper_new(config) ==
  LET bufferSize == MsToSamples(config.echoTimeWindowSizeMs)
      minDelay == MsToSamples(config.minDelayMs)
  IN [echoTimeWindowSizeMs |-> config.echoTimeWindowSizeMs,
      updateIntervalFrames |-> config.updateIntervalFrames,
      minDelayMs |-> config.minDelayMs,
      stepSize |-> config.stepSize,
      txThresholdLin |-> _dbToLin(config.txThresholdDb),
      rxThresholdLin |-> _dbToLin(config.rxThresholdDb),
      smoothingAlpha |-> config.smoothingAlpha,
      nxcThreshold |-> config.nxcThreshold,
      xcorrWindowSize |-> config.xcorrWindowSize,
      bufferSize |-> bufferSize,
      minDelay |-> minDelay,
      delayUpdateCountRejectedNoTx |-> 0,
      delayUpdateCountRejectedNoRx |-> 0,
      delayUpdateCountRejectedPoorXCorr |-> 0,
      delayUpdateCount |-> 0,
      lastXCorrScore |-> NccZero,
      nearEndBuffer |-> Float32Array(bufferSize),
      farEndBuffer |-> Float32Array(bufferSize),
      writePos |-> 0,
      delay |-> minDelay,
      frameCounter |-> 0,
      foundXC |-> FALSE,
      spinning |-> FALSE]   \* updateDelay is in a loop it never leaves

\* the clamp left out: the delay is kept as it is (a variant the floor on the
\* delay must tell apart)
KeepDelay(delay, minDelay) == delay

\* delay = max(delay, minDelay) when a configuration carries minDelayMs
ClampDelay(delay, minDelay) == Max(delay, minDelay)

\* the reallocation taking the lock away with the histories (a variant the
\* permanence of the lock must tell apart)
ReallocatedUnlocked(xc, echoTimeWindowSizeMs) ==
  [xc EXCEPT !.echoTimeWindowSizeMs = echoTimeWindowSizeMs,
             !.bufferSize = MsToSamples(echoTimeWindowSizeMs),
             !.nearEndBuffer = Float32Array(MsToSamples(echoTimeWindowSizeMs)),
             !.farEndBuffer = Float32Array(MsToSamples(echoTimeWindowSizeMs)),
             !.writePos = 0,
             !.foundXC = FALSE]

\* the histories reallocated for a new echo time window, and the cursor reset
Reallocated(xc, echoTimeWindowSizeMs) ==
  [xc EXCEPT !.echoTimeWindowSizeMs = echoTimeWindowSizeMs,
             !.bufferSize = MsToSamples(echoTimeWindowSizeMs),
             !.nearEndBuffer = Float32Array(MsToSamples(echoTimeWindowSizeMs)),
             !.farEndBuffer = Float32Array(MsToSamples(echoTimeWindowSizeMs)),
             !.writePos = 0]

XCorrHelper_updateConfig(xc, config) ==
  LET resize == Has(config, "echoTimeWindowSizeMs")
                /\ config.echoTimeWindowSizeMs # xc.echoTimeWindowSizeMs
  IN [(IF resize THEN Reallocated(xc, config.echoTimeWindowSizeMs) ELSE xc) EXCEPT
        !.updateIntervalFrames =
           IF Has(config, "updateIntervalFrames") THEN config.updateIntervalFrames ELSE @,
        !.minDelayMs = IF Has(config, "minDelayMs") THEN config.minDelayMs ELSE @,
        !.minDelay = IF Has(config, "minDelayMs") THEN MsToSamples(config.minDelayMs) ELSE @,
        !.delay = IF Has(config, "minDelayMs")
                    THEN ClampDelay(@, MsToSamples(config.minDelayMs)) ELSE @,
        !.stepSize = IF Has(config, "stepSize") THEN config.stepSize ELSE @,
        !.txThresholdLin =
           IF Has(config, "txThresholdDb") THEN _dbToLin(config.txThresholdDb) ELSE @,
        !.rxThresholdLin =
           IF Has(config, "rxThresholdDb") THEN _dbToLin(config.rxThresholdDb) ELSE @,
        !.smoothingAlpha = IF Has(config, "smoothingAlpha") THEN config.smoothingAlpha ELSE @,
        !.nxcThreshold = IF Has(config, "nxcThreshold") THEN config.nxcThreshold ELSE @,
        !.xcorrWindowSize =
           IF Has(config, "xcorrWindowSize") THEN config.xcorrWindowSize ELSE @]

\* the sum of term[lo..hi]: the running total of a for loop, added up by
\* halves (integer addition is associative)
RECURSIVE RangeSum(_, _, _)
RangeSum(term, lo, hi) ==
  IF lo > hi THEN 0
  ELSE IF lo = hi THEN term[lo]
  ELSE RangeSum(term, lo, (lo + hi) \div 2) + RangeSum(term, (lo + hi) \div 2 + 1, hi)

\* the sum over i < numSamples of buf[(writePos - 1 - i + bufferSize) % bufferSize]^2
WindowEnergy(buf, xc, numSamples) ==
  RangeSum([i \in 0..(numSamples - 1) |->
              buf[JsMod(xc.writePos - 1 - i + xc.bufferSize, xc.bufferSize)]
                * buf[JsMod(xc.writePos - 1 - i + xc.bufferSize, xc.bufferSize)]],
           0, numSamples - 1)

\* Math.sqrt(energy / numSamples) < thresholdLin, with thresholdLin in thousandths
RmsBelow(energy, numSamples, thresholdLin) ==
  energy * (1000 \div FixedOne) * (1000 \div FixedOne)
    < thresholdLin * thresholdLin * numSamples

\* "tx" | "rx" | "ok": the branch taken on the two window energies
EnergyGate(xc, numSamples, txE, rxE) ==
  IF RmsBelow(txE, numSamples, xc.txThresholdLin) THEN "tx"
  ELSE IF RmsBelow(rxE, numSamples, xc.rxThresholdLin) THEN "rx"
  ELSE "ok"

XCorrHelper_haveEnoughSignalForXCorr(xc) ==
  EnergyGate(xc, Min(xc.xcorrWindowSize, xc.bufferSize),
             WindowEnergy(xc.nearEndBuffer, xc, Min(xc.xcorrWindowSize, xc.bufferSize)),
             WindowEnergy(xc.farEndBuffer, xc, Min(xc.xcorrWindowSize, xc.bufferSize)))

\* the samples n and f that _computeNCC reads at step i
NccNear(xc, i) == xc.nearEndBuffer[JsMod(xc.writePos - 1 - i + xc.bufferSize, xc.bufferSize)]
NccFar(xc, delay, i) ==
  xc.farEndBuffer[JsMod(xc.writePos - 1 - i - delay + xc.bufferSize, xc.bufferSize)]

\* the three sums of _computeNCC, over i < numSamples
NccSums(xc, delay, numSamples) ==
  [corr |-> RangeSum([i \in 0..(numSamples - 1) |-> NccNear(xc, i) * NccFar(xc, delay, i)],
                     0, numSamples - 1),
   nearE |-> RangeSum([i \in 0..(numSamples - 1) |-> NccNear(xc, i) * NccNear(xc, i)],
                      0, numSamples - 1),
   farE |-> RangeSum([i \in 0..(numSamples - 1) |->
                        NccFar(xc, delay, i) * NccFar(xc, delay, i)],
                     0, numSamples - 1)]

NccOfSums(s) == NccValue(s.corr, s.nearE, s.farE)

XCorrHelper_computeNCC(xc, delay, windowSize) ==
  NccOfSums(NccSums(xc, delay, Min(windowSize, xc.bufferSize - delay)))

\* the stride of the fine search
fineStep == 12

\* a comparison that lets a tie replace the earlier candidate (a variant the
\* order of the candidates must tell apart)
BetterOrEqual(ncc, d, best) ==
  IF ~NccGt(best.nxc, ncc) THEN [best EXCEPT !.nxc = ncc, !.at = d] ELSE best

\* if (ncc > best) { best = ncc; at = d }
Better(ncc, d, best) ==
  IF NccGt(ncc, best.nxc) THEN [best EXCEPT !.nxc = ncc, !.at = d] ELSE best

\* for (d = from; d < to; d += step) { the comparison above }
\* A loop over the integers from d up to to that steps by 1 or more leaves
\* after at most to - d trips: trips counts down from to - d, and a loop that
\* is still inside when none is left never leaves (spins).
RECURSIVE SearchLoop(_, _, _, _, _, _, _)
SearchLoop(xc, d, to, step, windowSize, trips, best) ==
  IF d >= to THEN best
  ELSE IF trips = 0 THEN [best EXCEPT !.spins = TRUE]
  ELSE SearchLoop(xc, d + step, to, step, windowSize, trips - 1,
                  Better(XCorrHelper_computeNCC(xc, d, windowSize), d, best))

\* the fine search around the coarse search's best candidate; not reached
\* when the coarse search never leaves its loop
FineSearch(xc, windowSize, maxDelay, coarse) ==
  IF coarse.spins THEN coarse
  ELSE SearchLoop(xc, Max(xc.minDelay, coarse.at - xc.stepSize),
                  Min(maxDelay, coarse.at + xc.stepSize), fineStep, windowSize,
                  Min(maxDelay, coarse.at + xc.stepSize)
                    - Max(xc.minDelay, coarse.at - xc.stepSize),
                  coarse)

\* the best candidate of the coarse and then the fine search
XCorrHelper_search(xc) ==
  FineSearch(xc, Min(xc.xcorrWindowSize, xc.bufferSize), xc.bufferSize - xc.minDelay,
             SearchLoop(xc, xc.minDelay, xc.bufferSize - xc.minDelay, xc.stepSize,
                        Min(xc.xcorrWindowSize, xc.bufferSize),
                        xc.bufferSize - 2 * xc.minDelay,
                        [nxc |-> NegInfinity, at |-> 0, spins |-> FALSE]))

\* The smoothed delay the source computes first is overwritten by bestDelay.
AcceptedDelay(xc, bestDelay) == bestDelay

\* the threshold test on the best candidate, and the acceptance
AcceptOrReject(xc, best) ==
  IF NccBelow(best.nxc, xc.nxcThreshold)
    THEN [xc EXCEPT !.lastXCorrScore = best.nxc,
                    !.delayUpdateCountRejectedPoorXCorr = @ + 1]
    ELSE [xc EXCEPT !.lastXCorrScore = best.nxc,
                    !.delayUpdateCount = @ + 1,
                    !.delay = AcceptedDelay(xc, best.at),
                    !.foundXC = TRUE]

\* what updateDelay does after its searches, when it leaves them
AfterSearch(xc, best) ==
  IF best.spins THEN [xc EXCEPT !.spinning = TRUE] ELSE AcceptOrReject(xc, best)

UpdateOnGate(xc, gate) ==
  IF gate = "tx" THEN [xc EXCEPT !.delayUpdateCountRejectedNoTx = @ + 1]
  ELSE IF gate = "rx" THEN [xc EXCEPT !.delayUpdateCountRejectedNoRx = @ + 1]
  ELSE AfterSearch(xc, XCorrHelper_search(xc))

XCorrHelper_updateDelay(xc) == UpdateOnGate(xc, XCorrHelper_haveEnoughSignalForXCorr(xc))

RECURSIVE XCorrWrite(_, _, _, _, _)
XCorrWrite(xc, nearEndFrame, farEndFrame, i, nSamples) ==
  IF i >= nSamples THEN xc
  ELSE XCorrWrite([xc EXCEPT !.nearEndBuffer = Store(@, xc.writePos, nearEndFrame[i]),
                             !.farEndBuffer = Store(@, xc.writePos, farEndFrame[i]),
                             !.writePos = JsMod(xc.writePos + 1, xc.bufferSize)],
                  nearEndFrame, farEndFrame, i + 1, nSamples)

\* frameCounter++; if (frameCounter >= updateIntervalFrames) { frameCounter = 0; updateDelay() }
CountFrame(xc) ==
  IF xc.frameCounter + 1 >= xc.updateIntervalFrames
    THEN XCorrHelper_updateDelay([xc EXCEPT !.frameCounter = 0])
    ELSE [xc EXCEPT !.frameCounter = @ + 1]

XCorrHelper_addFrame(xc, nearEndFrame, farEndFrame) ==
  CountFrame(XCorrWrite(xc, nearEndFrame, farEndFrame, 0, Len0(nearEndFrame)))

\* ------------------------------------------------------------------------
\* HalfDuplexStrategy: the far-end gate
\* ------------------------------------------------------------------------
HalfDuplexStrategy_getDefaultCfg == [attackMs |-> 10, decayMs |-> 200, thresholdDb |-> -20]

HalfDuplexStrategy_new ==
  [config |-> HalfDuplexStrategy_getDefaultCfg,
   farEndLevel |-> 0,      \* in thousandths
   gatedFrames |-> 0,
   gated |-> FALSE]

HalfDuplexStrategy_onMessage(hd, type, value) ==
  IF type = "halfDuplex_config"
    THEN [hd EXCEPT !.config = ObjectAssign(hd.config, value)]
    ELSE hd

\* Math.floor(Math.sqrt(x)), by bisection on lo..hi
RECURSIVE ISqrtIn(_, _, _)
ISqrtIn(x, lo, hi) ==
  IF lo >= hi THEN lo
  ELSE LET mid == (lo + hi + 1) \div 2
       IN IF mid * mid <= x THEN ISqrtIn(x, mid, hi) ELSE ISqrtIn(x, lo, mid - 1)
ISqrt(x) == ISqrtIn(x, 0, 40000)

\* Math.exp(-q / 4) in thousandths, for q = 0 .. 32
ExpTable ==
  <<1000, 779, 607, 472, 368, 287, 223, 174, 135, 105, 82, 64, 50, 39, 30, 24, 18,
    14, 11, 9, 7, 5, 4, 3, 2, 2, 2, 1, 1, 1, 1, 0, 0>>
\* Math.exp(-num / den) in thousandths, interpolated between the table's entries
ExpNeg(num, den) ==
  LET q == (4 * num) \div den
      r == (4 * num) % den
  IN IF q >= 32 THEN 0
     ELSE ExpTable[q + 1] - RoundDiv((ExpTable[q + 1] - ExpTable[q + 2]) * r, den)

\* 1 - Math.exp(-frameTime / (ms / 1000)), frameTime = nSamples / sampleRate
SmoothingCoeff(nSamples, ms) ==
  IF ms <= 0 THEN 1000 ELSE 1000 - ExpNeg(1000 * nSamples, sampleRate * ms)

RECURSIVE SumSquares(_, _, _)
SumSquares(frame, i, nSamples) ==
  IF i >= nSamples THEN 0 ELSE frame[i] * frame[i] + SumSquares(frame, i + 1, nSamples)

\* the sum of the squares of the first len samples of a long buffer
Energy(buf, len) == RangeSum([i \in 0..(len - 1) |-> buf[i] * buf[i]], 0, len - 1)

\* Math.sqrt(ss / nSamples) in thousandths
FrameRms(frame, nSamples) ==
  ISqrt((SumSquares(frame, 0, nSamples) * (1000 \div FixedOne) * (1000 \div FixedOne))
          \div nSamples)

\* a message on every frame (a variant the once-per-transition property must
\* tell apart)
NotifyAlways(gated, shouldGate) == <<[type |-> "gated", value |-> shouldGate]>>

\* if (shouldGate !== this.gated) postMessage({type: 'gated', value: shouldGate})
GateNotification(gated, shouldGate) ==
  IF shouldGate # gated THEN <<[type |-> "gated", value |-> shouldGate]>> ELSE <<>>

\* the gate decided on the level the frame found (a variant the gate property
\* must tell apart)
GateOnOldLevel(hd, nSamples, nearEndFrame, level) ==
  LET shouldGate == hd.farEndLevel > _dbToLin(hd.config.thresholdDb)
  IN [self |-> [hd EXCEPT !.farEndLevel = level,
                          !.gated = shouldGate,
                          !.gatedFrames = IF shouldGate THEN @ + 1 ELSE @],
      out |-> IF shouldGate
                THEN [i \in 0..(nSamples - 1) |-> 0]
                ELSE [i \in 0..(nSamples - 1) |-> nearEndFrame[i]],
      posted |-> GateNotification(hd.gated, shouldGate)]

\* the rest of onFrame, once the smoothed level is known
GateOnLevel(hd, nSamples, nearEndFrame, level) ==
  LET shouldGate == level > _dbToLin(hd.config.thresholdDb)
  IN [self |-> [hd EXCEPT !.farEndLevel = level,
                          !.gated = shouldGate,
                          !.gatedFrames = IF shouldGate THEN @ + 1 ELSE @],
      out |-> IF shouldGate
                THEN [i \in 0..(nSamples - 1) |-> 0]
                ELSE [i \in 0..(nSamples - 1) |-> nearEndFrame[i]],
      posted |-> GateNotification(hd.gated, shouldGate)]

\* farEndLevel += coeff * (rms - farEndLevel), attack when rising, decay otherwise
SmoothLevel(hd, nSamples, rms) ==
  hd.farEndLevel
    + RoundDiv((IF rms > hd.farEndLevel
                  THEN SmoothingCoeff(nSamples, hd.config.attackMs)
                  ELSE SmoothingCoeff(nSamples, hd.config.decayMs))
               * (rms - hd.farEndLevel), 1000)

\* returns the strategy, the output frame and the messages posted
HalfDuplexStrategy_onFrame(hd, nSamples, nearEndFrame, farEndFrame) ==
  GateOnLevel(hd, nSamples, nearEndFrame,
              SmoothLevel(hd, nSamples, FrameRms(farEndFrame, nSamples)))

\* ------------------------------------------------------------------------
\* TimeAlignedSubtractStrategy
\* ------------------------------------------------------------------------
\* a jump of the accepted delay larger than this is logged
delayJumpSamples == 48

TimeAlignedSubtractStrategy_new ==
  LET config == XCorrHelper_getDefaultCfg
      bufferSize == MsToSamples(config.echoTimeWindowSizeMs)
  IN [config |-> config,
      xCorr |-> XCorrHelper_new(config),
      bufferSize |-> bufferSize,
      farEndBuffer |-> Float32Array(bufferSize),
      writePos |-> 0,
      lastDelay |-> 0,
      debugOn |-> FALSE,              \* debugAlignedFarEnd is not null
      debugAlignedFarEnd |-> <<>>,    \* its first debugWritePos samples
      debugWritePos |-> 0]

TimeAlignedSubtractStrategy_startDebugRecording(ta) ==
  [ta EXCEPT !.debugOn = TRUE, !.debugAlignedFarEnd = <<>>, !.debugWritePos = 0]

\* getDebugTracks calls stopDebugRecording: the track is handed out and dropped
TimeAlignedSubtractStrategy_getDebugTracks(ta) ==
  [self |-> [ta EXCEPT !.debugOn = FALSE, !.debugAlignedFarEnd = <<>>, !.debugWritePos = 0],
   tracks |-> IF ta.debugOn
                THEN <<[name |-> "alignedFarEnd.wav", samples |-> ta.debugAlignedFarEnd]>>
                ELSE <<>>]

TimeAlignedSubtractStrategy_updateConfig(ta, newConfig) ==
  LET resize == Has(newConfig, "echoTimeWindowSizeMs")
                /\ newConfig.echoTimeWindowSizeMs # ta.config.echoTimeWindowSizeMs
  IN [ta EXCEPT
        !.config = ObjectAssign(@, newConfig),
        !.xCorr = XCorrHelper_updateConfig(@, ObjectAssign(ta.config, newConfig)),
        !.bufferSize = IF resize THEN MsToSamples(newConfig.echoTimeWindowSizeMs) ELSE @,
        !.farEndBuffer = IF resize
                           THEN Float32Array(MsToSamples(newConfig.echoTimeWindowSizeMs))
                           ELSE @,
        !.writePos = IF resize THEN 0 ELSE @]

TimeAlignedSubtractStrategy_onMessage(ta, type, value) ==
  IF type = "timeAligned_config" THEN TimeAlignedSubtractStrategy_updateConfig(ta, value) ELSE ta

RECURSIVE FarEndWrite(_, _, _, _)
FarEndWrite(ta, farEndFrame, i, nSamples) ==
  IF i >= nSamples THEN ta
  ELSE FarEndWrite([ta EXCEPT !.farEndBuffer = Store(@, ta.writePos, farEndFrame[i]),
                              !.writePos = JsMod(ta.writePos + 1, ta.bufferSize)],
                   farEndFrame, i + 1, nSamples)

\* the delay the subtraction reads at: lastDelay follows the accepted delay
\* inside the branch that logs a jump
SubtractionDelay(lastDelay, delay) ==
  IF Abs(delay - lastDelay) > delayJumpSamples THEN delay ELSE lastDelay

\* attenuation * farEndBuffer[readI], as stored in a Float32Array
AlignedFarEnd(attenuation, far) == RoundDiv(attenuation * far, FixedOne)
\* nearEndFrame[i] - attenuation * farEndBuffer[readI], as stored in outFrame
SubtractAligned(near, attenuation, far) ==
  RoundDiv(FixedOne * near - attenuation * far, FixedOne)

\* the subtraction loop, reading the far-end history at the given delay
SubtractAt(ta, lastDelay, nSamples, nearEndFrame, debugRecording, maxSamples) ==
  LET clampedDelay == Min(lastDelay, ta.bufferSize - 1)
      readStart == JsMod(ta.writePos - nSamples - clampedDelay + ta.bufferSize * 5,
                         ta.bufferSize)
      attenuation == ta.config.echoAttenuation
      nRec == IF debugRecording /\ ta.debugOn
                THEN Min(nSamples, Max(0, maxSamples - ta.debugWritePos))
                ELSE 0
  IN [self |-> [ta EXCEPT
                  !.lastDelay = lastDelay,
                  !.debugAlignedFarEnd =
                     [k \in 0..(ta.debugWritePos + nRec - 1) |->
                        IF k < ta.debugWritePos THEN @[k]
                        ELSE AlignedFarEnd(attenuation,
                               ta.farEndBuffer[JsMod(readStart + k - ta.debugWritePos,
                                                     ta.bufferSize)])],
                  !.debugWritePos = @ + nRec],
      out |-> [i \in 0..(nSamples - 1) |->
                 SubtractAligned(nearEndFrame[i], attenuation,
                                 ta.farEndBuffer[JsMod(readStart + i, ta.bufferSize)])]]

\* the test of the lock flag left out: the subtraction runs on every frame (a
\* variant the silence before the first lock must tell apart)
OutputAlways(ta, nSamples, nearEndFrame, debugRecording, maxSamples) ==
  SubtractAt(ta, SubtractionDelay(ta.lastDelay, ta.xCorr.delay), nSamples,
             nearEndFrame, debugRecording, maxSamples)

\* the rest of onFrame, once the estimator and the far-end history are fed
OutputOnLock(ta, nSamples, nearEndFrame, debugRecording, maxSamples) ==
  IF ~ta.xCorr.foundXC
    THEN [self |-> ta, out |-> [i \in 0..(nSamples - 1) |-> 0]]
    ELSE SubtractAt(ta, SubtractionDelay(ta.lastDelay, ta.xCorr.delay), nSamples,
                    nearEndFrame, debugRecording, maxSamples)

\* returns the strategy and the output frame
TimeAlignedSubtractStrategy_onFrame(ta, nSamples, nearEndFrame, farEndFrame, debugRecording, maxSamples) ==
  OutputOnLock(FarEndWrite([ta EXCEPT !.xCorr = XCorrHelper_addFrame(@, nearEndFrame,
                                                                      farEndFrame)],
                           farEndFrame, 0, nSamples),
               nSamples, nearEndFrame, debugRecording, maxSamples)

\* ------------------------------------------------------------------------
\* IRMeasurementHelper: impulse-response measurement
\* ------------------------------------------------------------------------
\* a ^ b on non-negative integers
RECURSIVE BitXor(_, _)
BitXor(a, b) ==
  IF a = 0 THEN b
  ELSE IF b = 0 THEN a
  ELSE ((a + b) % 2) + 2 * BitXor(a \div 2, b \div 2)

\* 1 << n
RECURSIVE Shl1(_)
Shl1(n) == IF n <= 0 THEN 1 ELSE 2 * Shl1(n - 1)

\* the mask of order 14 whatever the order (a variant the period must tell
\* apart)
MlsTapOfOrder14(order) == Shl1(13) + Shl1(4) + Shl1(2) + Shl1(0)

\* taps[order] || taps[14]
MlsTap(order) ==
  CASE order = 10 -> Shl1(9) + Shl1(6)
    [] order = 12 -> Shl1(11) + Shl1(5) + Shl1(3) + Shl1(0)
    [] order = 16 -> Shl1(15) + Shl1(14) + Shl1(12) + Shl1(3)
    [] OTHER -> Shl1(13) + Shl1(4) + Shl1(2) + Shl1(0)

\* one step of the Galois shift register: lfsr >>= 1; if (bit) lfsr ^= tap
LfsrStep(lfsr, tap) ==
  IF lfsr % 2 = 1 THEN BitXor(lfsr \div 2, tap) ELSE lfsr \div 2

\* mls[i] = bit ? 0.5 : -0.5
MlsSample(lfsr) == IF lfsr % 2 = 1 THEN FixedOne \div 2 ELSE -(FixedOne \div 2)

\* the samples i .. len-1 of the sequence, as a Sequence
RECURSIVE MlsFrom(_, _, _, _)
MlsFrom(i, len, lfsr, tap) ==
  IF i >= len THEN <<>>
  ELSE <<MlsSample(lfsr)>>
         \o MlsFrom(i + 1, len, LfsrStep(lfsr, tap), tap)

IRMeasurementHelper_generateMLS(order) ==
  LET len == Shl1(order) - 1
      seq == MlsFrom(0, len, 1, MlsTap(order))
  IN [i \in 0..(len - 1) |-> seq[i + 1]]

\* Math.sin(Math.PI * j / w) as stored in a Float32Array, 0 <= j <= w
\* (Bhaskara's approximation, within 0.002 of the sine)
HalfSine(j, w) ==
  IF w = 0 THEN 0
  ELSE RoundDiv(FixedOne * 16 * j * (w - j), 5 * w * w - 4 * j * (w - j))

IRMeasurementHelper_generateDirac(widthSamples, signalType) ==
  LET silencePadSamples == sampleRate \div 4
      len == widthSamples + 2 * silencePadSamples
  IN [i \in 0..(len - 1) |->
        IF i < silencePadSamples \/ i > silencePadSamples + widthSamples THEN 0
        ELSE LET j == i - silencePadSamples
             IN IF signalType = "sine" THEN HalfSine(j, widthSamples)
                ELSE IF 2 * j < widthSamples THEN -((8 * FixedOne) \div 10)
                ELSE (8 * FixedOne) \div 10]

ValidTestSignalTypes == {"mls", "dirac_sine", "dirac_square"}

IRMeasurementHelperMock_new == [kind |-> "mock", ready |-> FALSE]

\* the fields of a new helper, given its test signal
IRMeasurementHelper_fields(config, testSignal) ==
  [kind |-> "real",
   signalType |-> config.testSignalType,
   irLength |-> config.irLength,
   measureSamples |-> MsToSamples(config.measurementDurationMs),
   testSignal |-> testSignal,
   testSignalEnergy |-> Energy(testSignal, Len0(testSignal)),
   recordBuffer |-> Float32Array(MsToSamples(config.measurementDurationMs)),
   recordPos |-> 0,
   playPos |-> 0,
   ir |-> Float32Array(config.irLength),
   irTrimmedSet |-> FALSE,        \* irTrimmed is not null
   irTrimmed |-> <<>>,
   irDelayOffset |-> 0,
   ready |-> FALSE,
   irAcquired |-> FALSE,
   peakValue |-> 0,
   peakIdx |-> 0,                 \* peakDelayMs = peakIdx / sampleRate * 1000
   peakAtBoundary |-> FALSE,
   debugPeakSum |-> 0,
   recSumSq |-> 0,                \* debugRecordRms = sqrt(recSumSq / recordPos)
   irSumBeforeNorm |-> 0]

\* the constructor; it throws for any other testSignalType
IRMeasurementHelper_new(config) ==
  IRMeasurementHelper_fields(config,
    IF config.testSignalType = "mls"
      THEN IRMeasurementHelper_generateMLS(config.mlsOrder)
    ELSE IF config.testSignalType = "dirac_sine"
      THEN IRMeasurementHelper_generateDirac(config.diracPulseWidth, "sine")
    ELSE IRMeasurementHelper_generateDirac(config.diracPulseWidth, "square"))

\* the correlation read one sample late in the test signal (a variant the
\* round trip must tell apart)
RECURSIVE CorrSumMisaligned(_, _, _, _)
CorrSumMisaligned(h, k, n, recordLen) ==
  IF n >= recordLen THEN 0
  ELSE (IF n - k + 2 < Len0(h.testSignal) THEN h.recordBuffer[n] * h.testSignal[n - k + 2]
        ELSE 0)
       + CorrSumMisaligned(h, k, n + 1, recordLen)

\* sum over n in k .. recordLen-1 with n - k < testSig.length of
\* recordBuffer[n] * testSig[n - k]
RECURSIVE CorrSum(_, _, _, _)
CorrSum(h, k, n, recordLen) ==
  IF n >= recordLen THEN 0
  ELSE (IF n - k < Len0(h.testSignal) THEN h.recordBuffer[n] * h.testSignal[n - k] ELSE 0)
       + CorrSum(h, k, n + 1, recordLen)

\* the first index of the largest magnitude, scanning from i with best so far
RECURSIVE PeakScan(_, _, _, _)
PeakScan(a, i, len, best) ==
  IF i >= len THEN best
  ELSE PeakScan(a, i + 1, len,
                IF Abs(a[i]) > best.val THEN [val |-> Abs(a[i]), idx |-> i] ELSE best)

\* the largest-magnitude correlation sum, the first one winning ties
RECURSIVE MaxSumScan(_, _, _, _)
MaxSumScan(sums, k, len, maxSum) ==
  IF k >= len THEN maxSum
  ELSE MaxSumScan(sums, k + 1, len, IF Abs(sums[k]) > Abs(maxSum) THEN sums[k] ELSE maxSum)

\* scanning i = irLen-1 down to peakIdx+1 for |ir[i]| > 0.1 * peakVal
RECURSIVE TailEnd(_, _, _, _, _)
TailEnd(ir, i, peakIdx, peakVal, irLen) ==
  IF i <= peakIdx THEN irLen
  ELSE IF 10 * Abs(ir[i]) > peakVal
    THEN Min(irLen, i + (sampleRate * 10) \div 1000)
    ELSE TailEnd(ir, i - 1, peakIdx, peakVal, irLen)

RECURSIVE SumAbs(_, _, _)
SumAbs(a, i, len) == IF i >= len THEN 0 ELSE Abs(a[i]) + SumAbs(a, i + 1, len)

\* the normalization left out (a variant the L1 norm must tell apart)
KeepUnnormalized(irTrimmed, irL1) == irTrimmed

\* irTrimmed[i] *= 1.0 / irL1, when irL1 > 1e-6
L1Normalize(irTrimmed, irL1) ==
  IF irL1 > 0
    THEN [i \in DOMAIN irTrimmed |-> RoundDiv(irTrimmed[i] * CoefOne, irL1)]
    ELSE irTrimmed

\* the first sample of the trimmed response: peakIdx less 5 ms, at least 0
TrimStart(peakIdx) == Max(0, peakIdx - (sampleRate * 5) \div 1000)

\* the sparse response: trimmed to tailEnd and normalized by its L1 norm
TrimAndNormalize(h, trimmed, trimmedLen, irL1) ==
  [h EXCEPT !.irTrimmedSet = TRUE,
            !.irTrimmed = L1Normalize(trimmed, irL1),
            !.irSumBeforeNorm = irL1,
            !.ready = TRUE,
            !.irAcquired = TRUE]

TrimTo(h, ir, irDelayOffset, tailEnd) ==
  TrimAndNormalize([h EXCEPT !.irDelayOffset = irDelayOffset],
                   [i \in 0..(tailEnd - irDelayOffset - 1) |-> ir[irDelayOffset + i]],
                   tailEnd - irDelayOffset,
                   SumAbs([i \in 0..(tailEnd - irDelayOffset - 1) |-> ir[irDelayOffset + i]],
                          0, tailEnd - irDelayOffset))

\* the peak statistics, then the trimming around the peak
AroundPeak(h, ir, peak, irLen) ==
  TrimTo([h EXCEPT !.ir = ir,
                   !.peakValue = peak.val,
                   !.peakIdx = peak.idx,
                   !.peakAtBoundary = (20 * peak.idx > 19 * irLen)],
         ir, TrimStart(peak.idx), TailEnd(ir, irLen - 1, peak.idx, peak.val, irLen))

FromResponse(h, ir, irLen) ==
  AroundPeak(h, ir, PeakScan(ir, 0, irLen, [val |-> 0, idx |-> 0]), irLen)

\* ir[k] = sum / testSignalEnergy, as stored
FromSums(h, sums, irLen) ==
  FromResponse([h EXCEPT !.debugPeakSum = MaxSumScan(sums, 0, irLen, 0)],
               [k \in 0..(irLen - 1) |-> RoundDiv(sums[k] * CoefOne, h.testSignalEnergy)],
               irLen)

\* the near-silence test left out (a variant the silent measurement must tell
\* apart)
NeverSilent(recSumSq, recordLen) == FALSE

\* Math.sqrt(recSumSq / recordLen) < .005
NearSilence(recSumSq, recordLen) == recSumSq * 40000 < FixedOne * FixedOne * recordLen

Correlate(h, recSumSq) ==
  IF NearSilence(recSumSq, h.recordPos)
    THEN [h EXCEPT !.recSumSq = recSumSq, !.irTrimmedSet = TRUE, !.irTrimmed = <<>>,
                   !.ready = TRUE]
    ELSE FromSums([h EXCEPT !.recSumSq = recSumSq],
                  [k \in 0..(h.irLength - 1) |-> CorrSum(h, k, k, h.recordPos)],
                  h.irLength)

IRMeasurementHelper_computeIR(h) ==
  Correlate(h, Energy(h.recordBuffer, h.recordPos))

\* the per-sample loop of onFrame: play the test signal, record the near end
RECURSIVE MeasureLoop(_, _, _, _, _)
MeasureLoop(h, test, nearEndFrame, i, nSamples) ==
  IF i >= nSamples THEN [self |-> h, test |-> test]
  ELSE IF h.recordPos >= h.measureSamples
    THEN MeasureLoop(h, test, nearEndFrame, i + 1, nSamples)
    ELSE MeasureLoop([h EXCEPT !.playPos = @ + 1,
                               !.recordBuffer = Store(@, h.recordPos, nearEndFrame[i]),
                               !.recordPos = @ + 1],
                     Store(test, i, IF h.playPos < Len0(h.testSignal)
                                      THEN h.testSignal[h.playPos] ELSE 0),
                     nearEndFrame, i + 1, nSamples)

\* the completion left out (a variant the end of the measurement must tell
\* apart)
NeverComplete(r) == r

\* if (recordPos >= measureSamples) _computeIR()
WhenComplete(r) ==
  IF r.self.recordPos >= r.self.measureSamples
    THEN [self |-> IRMeasurementHelper_computeIR(r.self), test |-> r.test]
    ELSE r

\* returns the helper and the test-signal frame
IRMeasurementHelper_onFrame(h, nSamples, nearEndFrame, testSignalFrame) ==
  IF h.kind = "mock" \/ h.ready THEN [self |-> h, test |-> testSignalFrame]
  ELSE WhenComplete(MeasureLoop(h, testSignalFrame, nearEndFrame, 0, nSamples))

\* ------------------------------------------------------------------------
\* RIRStrategy
\* ------------------------------------------------------------------------
\* irLength is 20480 samples in the source (427 ms at 48 kHz): scaled with the
\* sample rate.  echoAttenuation in tenths.
RIRStrategy_getDefaultCfg ==
  [irLength |-> 8, measurementDurationMs |-> 1000, testSignalType |-> "no_rir",
   diracPulseWidth |-> 48, mlsOrder |-> 14, echoAttenuation |-> 25]

RIRStrategy_new ==
  [config |-> RIRStrategy_getDefaultCfg,
   rir |-> IRMeasurementHelperMock_new,
   farEndDelayLine |-> Float32Array(RIRStrategy_getDefaultCfg.irLength),
   farEndDelayPos |-> 0,
   debugOn |-> FALSE,            \* debugEchoEstimate is not null
   debugEchoEstimate |-> <<>>,   \* its first debugWritePos samples
   debugWritePos |-> 0]

RIRStrategy_startDebugRecording(rs) ==
  [rs EXCEPT !.debugOn = TRUE, !.debugEchoEstimate = <<>>, !.debugWritePos = 0]

IRMeasurementHelper_getDebugTracks(h) ==
  IF h.kind = "mock" THEN <<>>
  ELSE <<[name |-> "ir_test_signal.wav", samples |-> h.testSignal],
         [name |-> "ir_measured.wav", samples |-> h.recordBuffer],
         [name |-> "ir_estimated.wav", samples |-> h.ir]>>

RIRStrategy_getDebugTracks(rs) ==
  [self |-> IF rs.debugOn
               THEN [rs EXCEPT !.debugOn = FALSE, !.debugEchoEstimate = <<>>,
                               !.debugWritePos = 0]
               ELSE rs,
   tracks |-> IRMeasurementHelper_getDebugTracks(rs.rir)
              \o <<[name |-> "far_end_delay_line.wav", samples |-> rs.farEndDelayLine]>>
              \o (IF rs.debugOn
                    THEN <<[name |-> "echo_estimate.wav", samples |-> rs.debugEchoEstimate]>>
                    ELSE <<>>)]

\* onSelected restarts the measurement; the helper's constructor throws on a
\* testSignalType it does not know, and this.rir then keeps its value
RIRStrategy_onSelected(rs) ==
  IF rs.config.testSignalType = "no_rir"
    THEN [self |-> [rs EXCEPT !.rir = IRMeasurementHelperMock_new], threw |-> FALSE]
  ELSE IF rs.config.testSignalType \in ValidTestSignalTypes
    THEN [self |-> [rs EXCEPT !.rir = IRMeasurementHelper_new(rs.config)], threw |-> FALSE]
  ELSE [self |-> rs, threw |-> TRUE]

\* a changed key other than echoAttenuation restarts the measurement
RirNeedsReset(config, value) ==
  \E key \in DOMAIN value :
    /\ (~Has(config, key) \/ config[key] # value[key])
    /\ key # "echoAttenuation"

\* the call of this.onSelected() from onMessage
Reselected(r) == [self |-> r.self, selected |-> TRUE, threw |-> r.threw]

\* returns the strategy, whether onSelected ran, and whether it threw
RIRStrategy_onMessage(rs, type, value) ==
  IF type = "rir_config"
    THEN IF RirNeedsReset(rs.config, value)
           THEN Reselected(RIRStrategy_onSelected(
                             [rs EXCEPT !.config = ObjectAssign(@, value)]))
           ELSE [self |-> [rs EXCEPT !.config = ObjectAssign(@, value)],
                 selected |-> FALSE, threw |-> FALSE]
    ELSE [self |-> rs, selected |-> FALSE, threw |-> FALSE]

\* sum over k < trimmedLen of irTrimmed[k] * farEndDelayLine[(pos - offset - k + 5 len) % len]
RECURSIVE SparseConvolve(_, _, _, _, _, _)
SparseConvolve(irTrimmed, line, pos, irDelayOffset, k, trimmedLen) ==
  IF k >= trimmedLen THEN 0
  ELSE LET delayLineLen == Len0(line)
           delayIdx == JsMod(pos - irDelayOffset - k + 5 * delayLineLen, delayLineLen)
       IN irTrimmed[k] * line[delayIdx]
          + SparseConvolve(irTrimmed, line, pos, irDelayOffset, k + 1, trimmedLen)

\* echoEstimate (atten * sum), and nearEndFrame[i] - echoEstimate, as stored
EchoEstimate(sum, atten) == RoundDiv(sum * atten, CoefOne * FixedOne)
SubtractEcho(near, sum, atten) ==
  RoundDiv(near * CoefOne * FixedOne - sum * atten, CoefOne * FixedOne)

\* one sample of the cancellation loop, given the convolution sum
CancelSample(rs, out, nearEndFrame, i, pos, line, sum, maxSamples) ==
  LET atten == rs.config.echoAttenuation
      rec == rs.debugOn /\ rs.debugWritePos < maxSamples
  IN [self |-> [rs EXCEPT !.farEndDelayPos = pos,
                          !.farEndDelayLine = line,
                          !.debugEchoEstimate =
                             IF rec THEN [k \in 0..rs.debugWritePos |->
                                            IF k < rs.debugWritePos THEN @[k]
                                            ELSE EchoEstimate(sum, atten)]
                             ELSE @,
                          !.debugWritePos = IF rec THEN @ + 1 ELSE @],
      out |-> Store(out, i, SubtractEcho(nearEndFrame[i], sum, atten))]

\* the far-end sample written at pos, then the convolution over the line
WriteAndConvolve(rs, out, nearEndFrame, i, pos, line, maxSamples) ==
  CancelSample(rs, out, nearEndFrame, i, pos, line,
               SparseConvolve(rs.rir.irTrimmed, line, pos, rs.rir.irDelayOffset,
                              0, Len0(rs.rir.irTrimmed)),
               maxSamples)

RECURSIVE RirCancelLoop(_, _, _, _, _, _)
RirCancelLoop(c, nearEndFrame, farEndFrame, i, nSamples, maxSamples) ==
  IF i >= nSamples THEN c
  ELSE RirCancelLoop(
         WriteAndConvolve(c.self, c.out, nearEndFrame, i,
                          JsMod(c.self.farEndDelayPos + 1, Len0(c.self.farEndDelayLine)),
                          Store(c.self.farEndDelayLine,
                                JsMod(c.self.farEndDelayPos + 1, Len0(c.self.farEndDelayLine)),
                                farEndFrame[i]),
                          maxSamples),
         nearEndFrame, farEndFrame, i + 1, nSamples, maxSamples)

\* the measurement branch of onFrame: mute, and size the delay line when the
\* measurement completes
Measuring(rs, m, nSamples, outFrame) ==
  [self |-> [rs EXCEPT !.rir = m.self,
                       !.farEndDelayLine = IF m.self.ready
                                             THEN Float32Array(Len0(m.self.ir)) ELSE @,
                       !.farEndDelayPos = IF m.self.ready THEN 0 ELSE @],
   out |-> [i \in DOMAIN outFrame |-> IF i < nSamples THEN 0 ELSE outFrame[i]],
   test |-> m.test]

Cancelled(c, testSignalFrame) == [self |-> c.self, out |-> c.out, test |-> testSignalFrame]

\* returns the strategy, the output frame and the test-signal frame
RIRStrategy_onFrame(rs, nSamples, nearEndFrame, farEndFrame, outFrame, testSignalFrame, maxSamples) ==
  IF ~rs.rir.ready
    THEN Measuring(rs, IRMeasurementHelper_onFrame(rs.rir, nSamples, nearEndFrame,
                                                   testSignalFrame),
                   nSamples, outFrame)
    ELSE Cancelled(RirCancelLoop([self |-> rs, out |-> outFrame], nearEndFrame,
                                 farEndFrame, 0, nSamples, maxSamples),
                   testSignalFrame)

\* ------------------------------------------------------------------------
\* NLMSStrategy
\* ------------------------------------------------------------------------
\* filterLength is 4096 taps in the source (85 ms at 48 kHz): scaled with the
\* sample rate.  stepSize in tenths, leakage in 1/10000, epsilon in 1e-8.
NLMSStrategy_getDefaultCfg ==
  [filterLength |-> 4, stepSize |-> 5, epsilon |-> 1, leakage |-> 9999, minDelayMs |-> 50]

NLMSStrategy_initFilter(ls) ==
  [ls EXCEPT !.h = Float32Array(ls.config.filterLength),
             !.xBuf = Float32Array(ls.config.filterLength),
             !.xBufPos = 0,
             !.minDelaySamples = MsToSamples(ls.config.minDelayMs)]

NLMSStrategy_new ==
  NLMSStrategy_initFilter(
    [config |-> NLMSStrategy_getDefaultCfg, h |-> <<>>, xBuf |-> <<>>, xBufPos |-> 0,
     minDelaySamples |-> 0, filterUpdates |-> 0, maxCoeff |-> 0, peakTap |-> 0])

\* the comparison left out: every configuration reinitializes the filter (a
\* variant the survival of the coefficients must tell apart)
NlmsAlwaysInit(value, oldLen) == TRUE

\* a configuration reinitializes the filter when it changes filterLength
NlmsNeedsInit(value, oldLen) == Has(value, "filterLength") /\ value.filterLength # oldLen

\* the second half of the nlms_config branch
NlmsMinDelay(ls, value) ==
  IF Has(value, "minDelayMs")
    THEN [ls EXCEPT !.minDelaySamples = MsToSamples(ls.config.minDelayMs)]
    ELSE ls

\* new Float32Array(len) throws a RangeError for a negative length
InvalidArrayLength(len) == len < 0

\* the message makes initFilter throw: at its first allocation, after
\* Object.assign has merged the configuration
NlmsThrows(ls, type, value) ==
  IF type = "nlms_config"
    THEN /\ NlmsNeedsInit(value, ls.config.filterLength)
         /\ InvalidArrayLength(ObjectAssign(ls.config, value).filterLength)
  ELSE IF type = "nlms_reset" THEN InvalidArrayLength(ls.config.filterLength)
  ELSE FALSE

NLMSStrategy_onMessage(ls, type, value) ==
  IF type = "nlms_config"
    THEN IF NlmsThrows(ls, type, value)
           THEN [ls EXCEPT !.config = ObjectAssign(@, value)]
           ELSE NlmsMinDelay(IF NlmsNeedsInit(value, ls.config.filterLength)
                               THEN NLMSStrategy_initFilter(
                                      [ls EXCEPT !.config = ObjectAssign(@, value)])
                               ELSE [ls EXCEPT !.config = ObjectAssign(@, value)],
                             value)
  ELSE IF type = "nlms_reset"
    THEN IF NlmsThrows(ls, type, value) THEN ls ELSE NLMSStrategy_initFilter(ls)
  ELSE ls

\* sum over j in from .. len-1 of xBuf[(pos - j + len) % len]^2
RECURSIVE TapEnergy(_, _, _, _)
TapEnergy(xBuf, pos, j, len) ==
  IF j >= len THEN 0
  ELSE LET x == xBuf[JsMod(pos - j + len, len)]
       IN x * x + TapEnergy(xBuf, pos, j + 1, len)

\* sum over j in from .. len-1 of h[j] * xBuf[(pos - j + len) % len]
RECURSIVE TapDot(_, _, _, _, _)
TapDot(h, xBuf, pos, j, len) ==
  IF j >= len THEN 0
  ELSE h[j] * xBuf[JsMod(pos - j + len, len)] + TapDot(h, xBuf, pos, j + 1, len)

\* a/b + c/d rounded to the nearest integer (b, d > 0)
RoundSum(a, b, c, d) ==
  (a \div b) + (c \div d) + ((2 * ((a % b) * d + (c % d) * b) + b * d) \div (2 * b * d))

\* xPower < eps
BelowEpsilon(xPower, eps) == xPower < (eps + 999999) \div 1000000

\* the leakage left out of the update (a variant the decay of the taps must
\* tell apart)
TapUpdateNoLeak(hj, leakage, mu, xPower, err, x) ==
  RoundSum(10000 * hj, 10000, mu * err * x, FixedOne * xPower)

\* leakage * h[j] + (mu / xPower) * error * x, as stored in h; error is
\* err / (CoefOne * FixedOne)
TapUpdate(hj, leakage, mu, xPower, err, x) ==
  RoundSum(leakage * hj, 10000, mu * err * x, FixedOne * xPower)

\* the update of every tap from minDelay on, unless xPower < eps
Adapt(ls, xPower, err) ==
  IF BelowEpsilon(xPower, ls.config.epsilon) THEN ls
  ELSE [ls EXCEPT !.h = [j \in DOMAIN @ |->
                           IF j >= ls.minDelaySamples /\ j < ls.config.filterLength
                             THEN TapUpdate(@[j], ls.config.leakage, ls.config.stepSize,
                                            xPower, err,
                                            ls.xBuf[JsMod(ls.xBufPos - j + ls.config.filterLength,
                                                          ls.config.filterLength)])
                             ELSE @[j]],
                  !.filterUpdates = @ + 1]

\* xPower is NaN: NaN < eps is false, so the update runs.  xPower becomes NaN
\* only when minDelay is above the filter length (see NlmsEstimate): the
\* update loop from minDelay to len - 1 has no tap to change.
AdaptOnNaN(ls) == [ls EXCEPT !.filterUpdates = @ + 1]

\* one sample, given the error nearEndFrame[i] - yHat in 1/(CoefOne * FixedOne)
NlmsSample(c, xPower, err, i) ==
  [self |-> IF c.nan THEN AdaptOnNaN(c.self) ELSE Adapt(c.self, xPower, err),
   xPower |-> xPower, nan |-> c.nan,
   out |-> Store(c.out, i, RoundDiv(err, CoefOne))]

\* the far-end sample is in the delay line: the window's energy, the estimate
EnteringIndex(ls) ==
  JsMod(ls.xBufPos - ls.minDelaySamples + ls.config.filterLength, ls.config.filterLength)

\* xBuf[(xBufPos - minDelay + len) % len]: a negative index reads undefined,
\* whose square is NaN, and xPower stays NaN to the end of the frame
NlmsEstimate(c, ls, leavingVal, nearEndFrame, i) ==
  NlmsSample([c EXCEPT !.self = ls, !.nan = @ \/ EnteringIndex(ls) \notin DOMAIN ls.xBuf],
             IF c.nan \/ EnteringIndex(ls) \notin DOMAIN ls.xBuf THEN c.xPower
             ELSE LET enteringVal == ls.xBuf[EnteringIndex(ls)]
                  IN c.xPower - leavingVal * leavingVal + enteringVal * enteringVal,
             nearEndFrame[i] * CoefOne
               - TapDot(ls.h, ls.xBuf, ls.xBufPos, ls.minDelaySamples, ls.config.filterLength),
             i)

RECURSIVE NlmsSampleLoop(_, _, _, _, _)
NlmsSampleLoop(c, nearEndFrame, farEndFrame, i, nSamples) ==
  IF i >= nSamples THEN c
  ELSE NlmsSampleLoop(
         NlmsEstimate(c,
                      [c.self EXCEPT
                         !.xBuf = Store(@, JsMod(c.self.xBufPos + 1,
                                                 c.self.config.filterLength),
                                        farEndFrame[i]),
                         !.xBufPos = JsMod(@ + 1, c.self.config.filterLength)],
                      c.self.xBuf[JsMod(c.self.xBufPos + 1, c.self.config.filterLength)],
                      nearEndFrame, i),
         nearEndFrame, farEndFrame, i + 1, nSamples)

\* the periodic statistics: the first largest coefficient
NlmsPeak(ls, peak) == [ls EXCEPT !.maxCoeff = peak.val, !.peakTap = peak.idx]

NlmsStats(c, nSamples) ==
  [self |-> IF c.self.filterUpdates % 10000 < nSamples
              THEN NlmsPeak(c.self, PeakScan(c.self.h, 0, c.self.config.filterLength,
                                             [val |-> 0, idx |-> 0]))
              ELSE c.self,
   out |-> c.out]

\* returns the strategy and the output frame
NLMSStrategy_onFrame(ls, nSamples, nearEndFrame, farEndFrame, outFrame) ==
  NlmsStats(NlmsSampleLoop([self |-> ls,
                            xPower |-> TapEnergy(ls.xBuf, ls.xBufPos, ls.minDelaySamples,
                                                 ls.config.filterLength),
                            nan |-> FALSE,
                            out |-> outFrame],
                           nearEndFrame, farEndFrame, 0, nSamples),
            nSamples)

\* ------------------------------------------------------------------------
\* NoisyFauxECProcessor: construction
\* ------------------------------------------------------------------------
\* the keys of this.strategies
Registered ==
  {"passthrough", "silenceMic", "testTone", "naiveSubtract", "halfDuplex",
   "timeAlignedSubtract", "rir", "lms"}

\* this.strategies is a plain object: a lookup of a name it does not hold
\* falls through to Object.prototype, whose members are functions (truthy)
ObjectPrototypeKeys == {"toString"}

\* this.strategies[name] is truthy
StrategyLookup(name) == name \in Registered \cup ObjectPrototypeKeys

debugMaxSamples == sampleRate * 30

NoisyFauxECProcessor_new ==
  [mode |-> "passthrough",
   frames |-> 0,
   xruns |-> 0,
   debugRecording |-> FALSE,
   bufferFrameCount |-> 1,
   bufferSize |-> 1 * RenderQuantum,
   nearEndBuffer |-> Float32Array(RenderQuantum),
   farEndBuffer |-> Float32Array(RenderQuantum),
   outputBuffer |-> Float32Array(RenderQuantum),
   testSignalBuffer |-> Float32Array(RenderQuantum),
   bufferWritePos |-> 0,
   bufferReadPos |-> 0,
   bufferedFrames |-> 0,
   debugTracksOn |-> FALSE,         \* debugTracks is not null
   debugTracks |-> [nearEnd |-> <<>>, farEnd |-> <<>>, output |-> <<>>],
   debugWritePos |-> 0]

Strategies_new ==
  [testTone |-> [phase |-> 0],
   halfDuplex |-> HalfDuplexStrategy_new,
   timeAlignedSubtract |-> TimeAlignedSubtractStrategy_new,
   rir |-> RIRStrategy_new,
   lms |-> NLMSStrategy_new]

\* ------------------------------------------------------------------------
\* NoisyFauxECProcessor: port.onmessage
\* ------------------------------------------------------------------------
\* What a handler leaves behind: the two objects, the strategies whose
\* onSelected hook it invoked (in order), whether it threw, what it posted.
Outcome(p, s, selected, threw, posted) ==
  [proc |-> p, strategies |-> s, selected |-> selected, threw |-> threw, posted |-> posted]

\* the comparison left out: every named mode is taken to differ (a variant the
\* idempotence property must tell apart)
ModeAlwaysDiffers(current, mode) == TRUE

\* this.mode !== mode
ModeDiffers(current, mode) == current # mode

\* the outcome of rir.onSelected() for the processor
RirSelected(p, s, r) == Outcome(p, [s EXCEPT !.rir = r.self], <<"rir">>, r.threw, <<>>)

\* this.mode = mode; this.strategies[mode].onSelected();
\* a member of Object.prototype has no onSelected: the call throws a TypeError
SelectMode(p, s, mode) ==
  IF mode = "rir"
    THEN RirSelected([p EXCEPT !.mode = mode], s, RIRStrategy_onSelected(s.rir))
  ELSE IF mode \in Registered THEN Outcome([p EXCEPT !.mode = mode], s, <<mode>>, FALSE, <<>>)
  ELSE Outcome([p EXCEPT !.mode = mode], s, <<>>, TRUE, <<>>)

\* if (nlms) ...: not reached when rir.onMessage threw
NlmsConfig(a, s2, r, value) ==
  Outcome(a.proc,
          [s2 EXCEPT !.rir = r.self,
                     !.lms = IF ~r.threw /\ Has(value, "nlms")
                               THEN NLMSStrategy_onMessage(@, "nlms_config", value.nlms)
                               ELSE @],
          a.selected \o (IF r.selected THEN <<"rir">> ELSE <<>>),
          r.threw \/ (Has(value, "nlms") /\ NlmsThrows(s2.lms, "nlms_config", value.nlms)),
          <<>>)

\* if (rir) ...
RirConfig(a, s2, value) ==
  NlmsConfig(a, s2,
             IF Has(value, "rir")
               THEN RIRStrategy_onMessage(s2.rir, "rir_config", value.rir)
               ELSE [self |-> s2.rir, selected |-> FALSE, threw |-> FALSE],
             value)

\* if (timeAligned) ...; if (halfDuplex) ...: not reached when the mode
\* switch threw
DispatchConfigs(a, value) ==
  IF a.threw THEN a
  ELSE RirConfig(a,
         [a.strategies EXCEPT
            !.timeAlignedSubtract =
               IF Has(value, "timeAligned")
                 THEN TimeAlignedSubtractStrategy_onMessage(@, "timeAligned_config",
                                                            value.timeAligned)
                 ELSE @,
            !.halfDuplex =
               IF Has(value, "halfDuplex")
                 THEN HalfDuplexStrategy_onMessage(@, "halfDuplex_config", value.halfDuplex)
                 ELSE @],
         value)

OnSetConfigs(p, s, value) ==
  DispatchConfigs(IF /\ Has(value, "mode")
                     /\ value.mode # ""
                     /\ StrategyLookup(value.mode)
                     /\ ModeDiffers(p.mode, value.mode)
                    THEN SelectMode(p, s, value.mode)
                    ELSE Outcome(p, s, <<>>, FALSE, <<>>),
                  value)

OnSetMode(p, s, value) ==
  IF ~StrategyLookup(value) THEN Outcome(p, s, <<>>, FALSE, <<>>)
  ELSE IF ModeDiffers(p.mode, value) THEN SelectMode(p, s, value)
  ELSE Outcome(p, s, <<>>, FALSE, <<>>)

\* value is an integer here: Math.floor leaves it as it is
OnSetBufferFrameCount(p, s, value) ==
  LET newCount == Max(1, value)
      bufferSize == newCount * RenderQuantum
  IN Outcome([p EXCEPT !.bufferFrameCount = newCount,
                       !.bufferSize = bufferSize,
                       !.nearEndBuffer = Float32Array(bufferSize),
                       !.farEndBuffer = Float32Array(bufferSize),
                       !.outputBuffer = Float32Array(bufferSize),
                       !.testSignalBuffer = Float32Array(bufferSize),
                       !.bufferWritePos = 0,
                       !.bufferReadPos = 0,
                       !.bufferedFrames = 0],
             s, <<>>, FALSE, <<>>)

\* activeStrategy.getStats(), without the derived and formatted figures
StrategyStats(mode, s) ==
  CASE mode = "halfDuplex" -> [gatedFrames |-> s.halfDuplex.gatedFrames]
    [] mode = "timeAlignedSubtract" ->
         [delay |-> s.timeAlignedSubtract.xCorr.delay,
          xcLock |-> s.timeAlignedSubtract.xCorr.foundXC,
          xcNoTx |-> s.timeAlignedSubtract.xCorr.delayUpdateCountRejectedNoTx,
          xcNoRx |-> s.timeAlignedSubtract.xCorr.delayUpdateCountRejectedNoRx,
          xcPoorXCorr |-> s.timeAlignedSubtract.xCorr.delayUpdateCountRejectedPoorXCorr,
          xcUpdate |-> s.timeAlignedSubtract.xCorr.delayUpdateCount]
    [] mode = "rir" ->
         IF s.rir.rir.kind = "mock" THEN [irComplete |-> FALSE]
         ELSE [irComplete |-> s.rir.rir.ready, irAcquired |-> s.rir.rir.irAcquired,
               irTrimmedSz |-> Len0(s.rir.rir.irTrimmed),
               irDelayOffset |-> s.rir.rir.irDelayOffset]
    [] mode = "lms" ->
         [nlmsUpdates |-> s.lms.filterUpdates, nlmsMaxCoeff |-> s.lms.maxCoeff,
          nlmsPeakTap |-> s.lms.peakTap]
    [] OTHER -> <<>>

\* the processing-time percentiles are not kept
NoisyFauxECProcessor_pubStats(p, s) ==
  IF p.mode \notin Registered THEN Outcome(p, s, <<>>, TRUE, <<>>)
  ELSE Outcome(p, s, <<>>, FALSE,
               <<[type |-> "stats",
                  value |-> [m |-> p.mode, frames |-> p.frames, xruns |-> p.xruns,
                             bufferFrames |-> p.bufferFrameCount,
                             bufferSamples |-> p.bufferSize,
                             strategy |-> StrategyStats(p.mode, s)]]>>)

OnGetDefaultConfigs(p, s) ==
  Outcome(p, s, <<>>, FALSE,
          <<[type |-> "defaultConfigs",
             value |-> [xCorr |-> XCorrHelper_getDefaultCfg,
                        halfDuplex |-> HalfDuplexStrategy_getDefaultCfg,
                        rir |-> RIRStrategy_getDefaultCfg,
                        nlms |-> NLMSStrategy_getDefaultCfg]]>>)

NoisyFauxECProcessor_startDebugRecording(p, s) ==
  LET p1 == [p EXCEPT !.debugTracksOn = TRUE,
                      !.debugTracks = [nearEnd |-> <<>>, farEnd |-> <<>>, output |-> <<>>],
                      !.debugWritePos = 0,
                      !.debugRecording = TRUE]
  IN Outcome(p1,
             CASE p.mode = "timeAlignedSubtract" ->
                    [s EXCEPT !.timeAlignedSubtract =
                       TimeAlignedSubtractStrategy_startDebugRecording(@)]
               [] p.mode = "rir" -> [s EXCEPT !.rir = RIRStrategy_startDebugRecording(@)]
               [] OTHER -> s,
             <<>>, FALSE, <<>>)

\* strategy.getDebugTracks ? strategy.getDebugTracks() : []
TimeAlignedTracks(s, r) == [s |-> [s EXCEPT !.timeAlignedSubtract = r.self], tracks |-> r.tracks]
RirTracks(s, r) == [s |-> [s EXCEPT !.rir = r.self], tracks |-> r.tracks]
StrategyTracks(p, s) ==
  CASE p.mode = "timeAlignedSubtract" ->
         TimeAlignedTracks(s, TimeAlignedSubtractStrategy_getDebugTracks(s.timeAlignedSubtract))
    [] p.mode = "rir" -> RirTracks(s, RIRStrategy_getDebugTracks(s.rir))
    [] OTHER -> [s |-> s, tracks |-> <<>>]

PostTracks(p, st) ==
  Outcome([p EXCEPT !.debugRecording = FALSE,
                    !.debugTracksOn = FALSE,
                    !.debugTracks = [nearEnd |-> <<>>, farEnd |-> <<>>, output |-> <<>>],
                    !.debugWritePos = 0],
          st.s, <<>>, FALSE,
          <<[type |-> "debugTracks",
             value |-> [tracks |->
                          (IF p.debugTracksOn
                             THEN <<[name |-> "nearEnd.wav", samples |-> p.debugTracks.nearEnd],
                                    [name |-> "farEnd.wav", samples |-> p.debugTracks.farEnd],
                                    [name |-> "output.wav", samples |-> p.debugTracks.output]>>
                             ELSE <<>>) \o st.tracks,
                        sampleRate |-> sampleRate]]>>)

NoisyFauxECProcessor_stopDebugRecording(p, s) == PostTracks(p, StrategyTracks(p, s))

OnNlmsReset(p, s) ==
  Outcome(p, [s EXCEPT !.lms = NLMSStrategy_onMessage(@, "nlms_reset", <<>>)],
          <<>>, NlmsThrows(s.lms, "nlms_reset", <<>>), <<>>)

OnNlmsExportFilter(p, s) ==
  Outcome(p, s, <<>>, FALSE,
          <<[type |-> "nlms_filter",
             value |-> [coefficients |-> s.lms.h,
                        filterLength |-> s.lms.config.filterLength,
                        minDelaySamples |-> s.lms.minDelaySamples,
                        sampleRate |-> sampleRate]]>>)

OnRirMeasure(p, s) == RirSelected(p, s, RIRStrategy_onSelected(s.rir))

\* a type the if-else chain does not name
OnOtherMessage(p, s) == Outcome(p, s, <<>>, FALSE, <<>>)

\* ------------------------------------------------------------------------
\* NoisyFauxECProcessor: process
\* ------------------------------------------------------------------------
OnFrameResult(st, out, test, posted) ==
  [strategies |-> st, out |-> out, test |-> test, posted |-> posted]

TestToneResult(p, s, r) ==
  OnFrameResult([s EXCEPT !.testTone = r.self], r.out, p.testSignalBuffer, <<>>)
HalfDuplexResult(p, s, r) ==
  OnFrameResult([s EXCEPT !.halfDuplex = r.self], r.out, p.testSignalBuffer, r.posted)
TimeAlignedResult(p, s, r) ==
  OnFrameResult([s EXCEPT !.timeAlignedSubtract = r.self], r.out, p.testSignalBuffer, <<>>)
RirResult(p, s, r) == OnFrameResult([s EXCEPT !.rir = r.self], r.out, r.test, <<>>)
NlmsResult(p, s, r) ==
  OnFrameResult([s EXCEPT !.lms = r.self], r.out, p.testSignalBuffer, <<>>)

\* strategy.onFrame(totalSamples, this.nearEndBuffer, this.farEndBuffer,
\*                  this.outputBuffer, this.testSignalBuffer)
StrategyOnFrame(p, s, nSamples) ==
  CASE p.mode = "passthrough" ->
         OnFrameResult(s, PassthroughStrategy_onFrame(nSamples, p.nearEndBuffer),
                       p.testSignalBuffer, <<>>)
    [] p.mode = "silenceMic" ->
         OnFrameResult(s, SilenceMicStrategy_onFrame(nSamples), p.testSignalBuffer, <<>>)
    [] p.mode = "naiveSubtract" ->
         OnFrameResult(s, NaiveSubtractStrategy_onFrame(nSamples, p.nearEndBuffer,
                                                        p.farEndBuffer),
                       p.testSignalBuffer, <<>>)
    [] p.mode = "testTone" ->
         TestToneResult(p, s, TestToneStrategy_onFrame(s.testTone, nSamples, p.nearEndBuffer))
    [] p.mode = "halfDuplex" ->
         HalfDuplexResult(p, s, HalfDuplexStrategy_onFrame(s.halfDuplex, nSamples,
                                                           p.nearEndBuffer, p.farEndBuffer))
    [] p.mode = "timeAlignedSubtract" ->
         TimeAlignedResult(p, s,
           TimeAlignedSubtractStrategy_onFrame(s.timeAlignedSubtract, nSamples,
             p.nearEndBuffer, p.farEndBuffer, p.debugRecording, debugMaxSamples))
    [] p.mode = "rir" ->
         RirResult(p, s, RIRStrategy_onFrame(s.rir, nSamples, p.nearEndBuffer, p.farEndBuffer,
                                             p.outputBuffer, p.testSignalBuffer,
                                             debugMaxSamples))
    [] p.mode = "lms" ->
         NlmsResult(p, s, NLMSStrategy_onFrame(s.lms, nSamples, p.nearEndBuffer,
                                               p.farEndBuffer, p.outputBuffer))

\* buffer[bufferWritePos + i] = frame[i] for i < nSamples
Accumulate(buffer, bufferWritePos, frame, nSamples) ==
  [k \in DOMAIN buffer |->
     IF k >= bufferWritePos /\ k < bufferWritePos + nSamples
       THEN frame[k - bufferWritePos] ELSE buffer[k]]

\* track[debugWritePos + i] = buffer[i] for i < nRec
Record(track, debugWritePos, buffer, nRec) ==
  [k \in 0..(debugWritePos + nRec - 1) |->
     IF k < debugWritePos THEN track[k] ELSE buffer[k - debugWritePos]]

\* the read position a dispatch leaves
ReadPosAfterDispatch == 0

\* What a process call leaves behind: the objects, whether it threw, the
\* onFrame invocation it made (at most one), the quantum written to each
\* output, and what the strategy posted.
\* The tail of process: copy a quantum out, count an overrun.
Emit(q, s, onFrame, posted, overrun) ==
  [proc |-> [q EXCEPT !.bufferReadPos = @ + RenderQuantum,
                      !.xruns = IF overrun THEN @ + 1 ELSE @],
   strategies |-> s,
   threw |-> FALSE,
   onFrame |-> onFrame,
   out |-> Slice(q.outputBuffer, q.bufferReadPos, RenderQuantum),
   test |-> Slice(q.testSignalBuffer, q.bufferReadPos, RenderQuantum),
   posted |-> posted]

\* after strategy.onFrame returned f: the debug tracks, the reset of the batch
Dispatched(p, f, nRec, overrun) ==
  Emit([p EXCEPT
          !.outputBuffer = f.out,
          !.testSignalBuffer = f.test,
          !.debugTracks =
             [nearEnd |-> Record(@.nearEnd, p.debugWritePos, p.nearEndBuffer, nRec),
              farEnd |-> Record(@.farEnd, p.debugWritePos, p.farEndBuffer, nRec),
              output |-> Record(@.output, p.debugWritePos, f.out, nRec)],
          !.debugWritePos = @ + nRec,
          !.bufferWritePos = 0,
          !.bufferReadPos = ReadPosAfterDispatch,
          !.bufferedFrames = 0],
       f.strategies,
       <<[mode |-> p.mode, nSamples |-> p.bufferSize, nearEnd |-> p.nearEndBuffer,
          farEnd |-> p.farEndBuffer, out |-> f.out]>>,
       f.posted, overrun)

\* the capacity test left out of the recording loop (a variant the truncation
\* must tell apart)
RecordWholeFrame(p) == IF p.debugRecording /\ p.debugTracksOn THEN p.bufferSize ELSE 0

\* the samples the recording loop copies: none unless a recording is on,
\* for (i = 0; i < totalSamples && debugWritePos < maxSamples; i++)
RecordCount(p) ==
  IF p.debugRecording /\ p.debugTracksOn
    THEN Min(p.bufferSize, Max(0, debugMaxSamples - p.debugWritePos))
    ELSE 0

\* the batch is full: clear the test signal, dispatch to the active strategy;
\* a member of Object.prototype has no onFrame: the call throws a TypeError
Dispatch(p, s, overrun) ==
  IF p.mode \notin Registered
    THEN [proc |-> p, strategies |-> s, threw |-> TRUE, onFrame |-> <<>>,
          out |-> <<>>, test |-> <<>>, posted |-> <<>>]
    ELSE Dispatched(p, StrategyOnFrame(p, s, p.bufferSize), RecordCount(p), overrun)

\* the batch is full when bufferedFrames >= bufferFrameCount
BatchFull(p) == p.bufferedFrames >= p.bufferFrameCount

Accumulated(p, s, overrun) ==
  IF BatchFull(p)
    THEN Dispatch([p EXCEPT !.testSignalBuffer = Float32Array(p.bufferSize)], s, overrun)
    ELSE Emit(p, s, <<>>, <<>>, overrun)

\* One call of process.  overrun: the call took more than 80% of its
\* timeslice by the wall clock.
NoisyFauxECProcessor_process(p, s, nearEndFrame, farEndFrame, overrun) ==
  Accumulated([p EXCEPT
                 !.frames = @ + 1,
                 !.nearEndBuffer = Accumulate(@, p.bufferWritePos, nearEndFrame, RenderQuantum),
                 !.farEndBuffer = Accumulate(@, p.bufferWritePos, farEndFrame, RenderQuantum),
                 !.bufferWritePos = @ + RenderQuantum,
                 !.bufferedFrames = @ + 1],
              s, overrun)

\* ------------------------------------------------------------------------
\* The state machine
\* ------------------------------------------------------------------------
NoBatch == [pending |-> <<>>, produced |-> <<>>, emitted |-> 0, dispatched |-> FALSE]

\* the state after construction, in a worklet running at the given rate with
\* an acoustic path of true delay d
InitAt(rate, d) ==
  /\ env = [sampleRate |-> rate, t |-> 0, d |-> d]
  /\ proc = NoisyFauxECProcessor_new
  /\ strategies = Strategies_new
  /\ alive = TRUE
  /\ ev = [op |-> "constructor", arg |-> <<>>, selected |-> <<>>, threw |-> FALSE,
           onFrame |-> <<>>, out |-> <<>>, test |-> <<>>, posted |-> <<>>]
  /\ hist = NoBatch
  /\ cnt = [calls |-> 0, msgs |-> 0]

\* the variables after a process call that left r
Processed(r, nearEndFrame, farEndFrame) ==
  /\ proc' = r.proc
  /\ strategies' = r.strategies
  /\ alive' = (~r.threw /\ ~r.strategies.timeAlignedSubtract.xCorr.spinning)
  /\ ev' = [op |-> "process", arg |-> [nearEnd |-> nearEndFrame, farEnd |-> farEndFrame],
            selected |-> <<>>, threw |-> r.threw, onFrame |-> r.onFrame,
            out |-> r.out, test |-> r.test, posted |-> r.posted]
  /\ hist' = IF r.onFrame # <<>>
               THEN [pending |-> <<>>, produced |-> r.onFrame[1].out, emitted |-> 1,
                     dispatched |-> TRUE]
               ELSE [hist EXCEPT !.pending = Append(@, [nearEnd |-> nearEndFrame,
                                                        farEnd |-> farEndFrame]),
                                 !.emitted = IF r.threw THEN @ ELSE @ + 1]
  /\ cnt' = [cnt EXCEPT !.calls = @ + 1]

\* a process call with the given input quanta; a call that throws puts the
\* node in its error state: it is not called again
ProcessCall(nearEndFrame, farEndFrame, overrun) ==
  /\ alive
  /\ Processed(NoisyFauxECProcessor_process(proc, strategies, nearEndFrame, farEndFrame,
                                            overrun),
               nearEndFrame, farEndFrame)

\* the delivery of one message to port.onmessage
Deliver(type, value, o) ==
  /\ ~strategies.timeAlignedSubtract.xCorr.spinning
  /\ proc' = o.proc
  /\ strategies' = o.strategies
  /\ ev' = [op |-> type, arg |-> value, selected |-> o.selected, threw |-> o.threw,
            onFrame |-> <<>>, out |-> <<>>, test |-> <<>>, posted |-> o.posted]
  /\ hist' = IF type = "setBufferFrameCount" THEN NoBatch ELSE hist
  /\ cnt' = [cnt EXCEPT !.msgs = @ + 1]
  /\ UNCHANGED <<alive, env>>

Process(nearEndFrame, farEndFrame, overrun) ==
  ProcessCall(nearEndFrame, farEndFrame, overrun) /\ UNCHANGED env
SetConfigs(value) == Deliver("setConfigs", value, OnSetConfigs(proc, strategies, value))
SetMode(value) == Deliver("setMode", value, OnSetMode(proc, strategies, value))
SetBufferFrameCount(value) ==
  Deliver("setBufferFrameCount", value, OnSetBufferFrameCount(proc, strategies, value))
GetStats == Deliver("getStats", <<>>, NoisyFauxECProcessor_pubStats(proc, strategies))
GetDefaultConfigs ==
  Deliver("getDefaultConfigs", <<>>, OnGetDefaultConfigs(proc, strategies))
StartDebugRecording ==
  Deliver("startDebugRecording", <<>>,
          NoisyFauxECProcessor_startDebugRecording(proc, strategies))
StopDebugRecording ==
  Deliver("stopDebugRecording", <<>>,
          NoisyFauxECProcessor_stopDebugRecording(proc, strategies))
NlmsReset == Deliver("nlms_reset", <<>>, OnNlmsReset(proc, strategies))
NlmsExportFilter == Deliver("nlms_exportFilter", <<>>, OnNlmsExportFilter(proc, strategies))
RirMeasure == Deliver("rir_measure", <<>>, OnRirMeasure(proc, strategies))
OtherMessage(type, value) == Deliver(type, value, OnOtherMessage(proc, strategies))

\* ------------------------------------------------------------------------
\* Spec: the control plane.  Any interleaving of up to MaxCalls process calls
\* with up to MaxMsgs messages, at a sample rate of 16 Hz.
\* ------------------------------------------------------------------------
ControlRate == 16

\* the names a setMode or setConfigs message may carry
ModeNames == Registered \cup ObjectPrototypeKeys \cup {"bogus"}

\* the inputs of a process call: the two input quanta, and whether the call
\* overruns its timeslice
Quanta ==
  {[nearEnd |-> [i \in 0..(RenderQuantum - 1) |-> i + 1],
    farEnd |-> [i \in 0..(RenderQuantum - 1) |-> 2],
    overrun |-> FALSE],
   [nearEnd |-> [i \in 0..(RenderQuantum - 1) |-> -3],
    farEnd |-> [i \in 0..(RenderQuantum - 1) |-> i + 2],
    overrun |-> TRUE]}

\* an rir configuration whose testSignalType is not a supported value
\* (the page sends '' when its selector has no value)
BadRirConfig == [testSignalType |-> ""]

\* the payloads of the setConfigs messages
ConfigPayloads ==
  {[mode |-> "rir",
    rir |-> [testSignalType |-> "dirac_square", diracPulseWidth |-> 2,
             measurementDurationMs |-> 250]],
   [mode |-> "lms", rir |-> BadRirConfig, nlms |-> [stepSize |-> 3]],
   [rir |-> [echoAttenuation |-> 10], nlms |-> [stepSize |-> 3]],
   [timeAligned |-> [minDelayMs |-> 200, updateIntervalFrames |-> 1]],
   [mode |-> "timeAlignedSubtract", timeAligned |-> [updateIntervalFrames |-> 1],
    halfDuplex |-> [thresholdDb |-> -40]],
   [mode |-> "toString", nlms |-> [filterLength |-> 2]]}

BufferFrameCounts == {0, 2}

\* messages whose type the handler does not name
OtherMessages ==
  {[type |-> "rir_config", value |-> BadRirConfig],
   [type |-> "reset", value |-> <<>>]}

Init == InitAt(ControlRate, 0)

\* a process call is made while calls remain, a message delivered while
\* messages remain
MayCall == cnt.calls < MaxCalls
MayDeliver == cnt.msgs < MaxMsgs

Next ==
  \/ \E q \in Quanta : MayCall /\ Process(q.nearEnd, q.farEnd, q.overrun)
  \/ \E value \in ConfigPayloads : MayDeliver /\ SetConfigs(value)
  \/ \E value \in ModeNames : MayDeliver /\ SetMode(value)
  \/ \E value \in BufferFrameCounts : MayDeliver /\ SetBufferFrameCount(value)
  \/ MayDeliver /\ GetStats
  \/ MayDeliver /\ GetDefaultConfigs
  \/ MayDeliver /\ StartDebugRecording
  \/ MayDeliver /\ StopDebugRecording
  \/ MayDeliver /\ NlmsReset
  \/ MayDeliver /\ NlmsExportFilter
  \/ MayDeliver /\ RirMeasure
  \/ \E m \in OtherMessages : MayDeliver /\ OtherMessage(m.type, m.value)

Spec == Init /\ [][Next]_vars

\* ------------------------------------------------------------------------
\* Properties of the control plane
\* ------------------------------------------------------------------------
\* the message types the claims call control messages
ControlMessages ==
  {"setMode", "setConfigs", "setBufferFrameCount", "nlms_reset", "rir_measure",
   "startDebugRecording", "stopDebugRecording"}

\* the message types port.onmessage names
HandledTypes ==
  ControlMessages \cup {"getStats", "getDefaultConfigs", "nlms_exportFilter"}

\* the batching buffers and their positions
BatchBuffers(p) ==
  <<p.bufferFrameCount, p.bufferSize, p.nearEndBuffer, p.farEndBuffer, p.outputBuffer,
    p.testSignalBuffer, p.bufferWritePos, p.bufferReadPos, p.bufferedFrames>>

\* the mode a setMode or setConfigs message asks for ("" when it names none)
RequestedMode(op, arg) ==
  IF op = "setMode" THEN arg
  ELSE IF op = "setConfigs" /\ Has(arg, "mode") THEN arg.mode
  ELSE ""

\* the message asks for a registered strategy other than the active one
Switches(op, arg, mode) ==
  RequestedMode(op, arg) \in Registered /\ RequestedMode(op, arg) # mode

\* a setConfigs message carries an rir configuration with a key, other than
\* echoAttenuation, whose value differs from the stored one
RestartsRir(op, arg, config) ==
  /\ op = "setConfigs"
  /\ Has(arg, "rir")
  /\ \E key \in DOMAIN arg.rir \ {"echoAttenuation"} :
       ~Has(config, key) \/ config[key] # arg.rir[key]

\* C1: control messages take effect only at a frame boundary: a message
\* delivered while a batch is partially accumulated (bufferedFrames > 0)
\* changes neither the active mode, nor a strategy's configuration or state,
\* nor the batching buffers.
C1_AppliedAtFrameBoundary ==
  [][(ev'.op \in ControlMessages /\ proc.bufferedFrames > 0)
       => /\ proc'.mode = proc.mode
          /\ strategies' = strategies
          /\ BatchBuffers(proc') = BatchBuffers(proc)]_vars

\* C2 (as stated): a setMode or setConfigs message invokes the target's
\* onSelected exactly once when it changes the mode to a different registered
\* strategy, and invokes no onSelected otherwise.
C2_OnSelectedOncePerSwitch ==
  [][ev'.op \in {"setMode", "setConfigs"}
       => ev'.selected = IF Switches(ev'.op, ev'.arg, proc.mode)
                           THEN <<RequestedMode(ev'.op, ev'.arg)>> ELSE <<>>]_vars

\* C2 (amended): the mode switch of a setMode or setConfigs message invokes the
\* target's onSelected exactly once when the message changes the mode to a
\* different registered strategy and not at all otherwise; the only further
\* invocation a message makes is the RIR strategy's restart of its
\* measurement, on a setConfigs message carrying an rir configuration that
\* changes a key other than echoAttenuation.
C2_OnSelectedOncePerSwitchOrRestart ==
  [][ev'.op \in {"setMode", "setConfigs"}
       => LET switch == IF Switches(ev'.op, ev'.arg, proc.mode)
                          THEN <<RequestedMode(ev'.op, ev'.arg)>> ELSE <<>>
          IN \/ ev'.selected = switch
             \/ /\ ev'.selected = switch \o <<"rir">>
                /\ RestartsRir(ev'.op, ev'.arg, strategies.rir.config)]_vars

\* C2 witness: the mode was switched away from passthrough and back, and the
\* message switching back invoked passthrough's onSelected once
C2_Witness ==
  /\ ev.op = "setMode"
  /\ ev.arg = "passthrough"
  /\ ev.selected = <<"passthrough">>
  /\ cnt.msgs = 2

\* C3: a setMode message naming an unregistered strategy leaves the mode
\* unchanged and invokes no onSelected, and the active mode is always one of
\* the eight registered strategies.
C3_UnregisteredModeIgnored ==
  /\ [](proc.mode \in Registered)
  /\ [][(ev'.op = "setMode" /\ ev'.arg \notin Registered)
          => (proc'.mode = proc.mode /\ ev'.selected = <<>>)]_vars

\* the quanta of a batch, concatenated in arrival order
Concatenated(quanta, field) ==
  [k \in 0..(Len(quanta) * RenderQuantum - 1) |->
     quanta[k \div RenderQuantum + 1][field][k % RenderQuantum]]

\* C4: with a constant batch multiplier B, onFrame is invoked exactly on the
\* B-th process call of each batch, with the B quanta of near-end and far-end
\* input concatenated in arrival order; the output it produced is emitted one
\* quantum per call, in order and once, starting with the completing call;
\* the calls before the first batch completes emit silence.
C4_BatchedDispatch ==
  [][ev'.op = "process"
       => LET batch == Append(hist.pending, ev'.arg)
          IN /\ (ev'.onFrame # <<>>) <=> (Len(batch) = proc.bufferFrameCount)
             /\ ev'.onFrame # <<>>
                  => /\ ev'.onFrame[1].nSamples = proc.bufferFrameCount * RenderQuantum
                     /\ ev'.onFrame[1].nearEnd = Concatenated(batch, "nearEnd")
                     /\ ev'.onFrame[1].farEnd = Concatenated(batch, "farEnd")
             /\ hist'.emitted <= proc.bufferFrameCount
             /\ ev'.out = IF hist'.dispatched
                            THEN Slice(hist'.produced,
                                       (hist'.emitted - 1) * RenderQuantum, RenderQuantum)
                            ELSE Float32Array(RenderQuantum)]_vars

\* a payload the handler cannot apply: an rir configuration whose
\* testSignalType is not supported, or a message of a type it does not name
InvalidPayload(op, arg) ==
  \/ op \notin HandledTypes \cup {"constructor", "process"}
  \/ /\ op = "setConfigs"
     /\ Has(arg, "rir")
     /\ Has(arg.rir, "testSignalType")
     /\ arg.rir.testSignalType \notin ValidTestSignalTypes \cup {"no_rir"}

\* C5: a control message with an invalid payload is dropped as a whole: the
\* active mode, every strategy's configuration and every strategy's state
\* are the same after the message as before it.
C5_InvalidPayloadDropped ==
  [][InvalidPayload(ev'.op, ev'.arg)
       => (proc'.mode = proc.mode /\ strategies' = strategies)]_vars

\* the state the strategies keep across mode switches
DelayLock(s) ==
  [delay |-> s.timeAlignedSubtract.xCorr.delay, foundXC |-> s.timeAlignedSubtract.xCorr.foundXC]
MeasuredIR(s) == s.rir.rir
Coefficients(s) == s.lms.h

\* the step dispatched a batch to the named strategy
Ran(e, mode) == e.op = "process" /\ e.onFrame # <<>> /\ e.onFrame[1].mode = mode

\* the message carries, under the given key, a configuration whose parameter
\* differs from the stored one
Reconfigures(e, key, parameter, config) ==
  /\ e.op = "setConfigs"
  /\ Has(e.arg, key)
  /\ Has(e.arg[key], parameter)
  /\ e.arg[key][parameter] # config[parameter]

\* the parameters of the rir configuration that size a buffer or the test signal
RirSizing == {"irLength", "measurementDurationMs", "mlsOrder", "diracPulseWidth"}

\* C6 (as stated): the delay lock and accepted delay, the measured impulse
\* response and the NLMS coefficients change only by frames of their own
\* mode, by the selection of their own mode, by nlms_reset, by rir_measure,
\* or by a reconfiguration that changes a parameter sizing one of their buffers.
C6_StateSurvives ==
  [][/\ DelayLock(strategies') # DelayLock(strategies)
          => \/ Ran(ev', "timeAlignedSubtract")
             \/ Switches(ev'.op, ev'.arg, proc.mode) /\ proc'.mode = "timeAlignedSubtract"
             \/ Reconfigures(ev', "timeAligned", "echoTimeWindowSizeMs",
                             strategies.timeAlignedSubtract.config)
     /\ MeasuredIR(strategies') # MeasuredIR(strategies)
          => \/ Ran(ev', "rir")
             \/ Switches(ev'.op, ev'.arg, proc.mode) /\ proc'.mode = "rir"
             \/ ev'.op = "rir_measure"
             \/ \E parameter \in RirSizing :
                  Reconfigures(ev', "rir", parameter, strategies.rir.config)
     /\ Coefficients(strategies') # Coefficients(strategies)
          => \/ Ran(ev', "lms")
             \/ Switches(ev'.op, ev'.arg, proc.mode) /\ proc'.mode = "lms"
             \/ ev'.op = "nlms_reset"
             \/ Reconfigures(ev', "nlms", "filterLength", strategies.lms.config)]_vars

\* C6 (amended): the delay lock and accepted delay change only by frames of
\* timeAlignedSubtract mode and by a timeAligned reconfiguration carrying
\* minDelayMs, which raises the accepted delay to the new minimum and keeps
\* the lock; the measured impulse response changes only by frames of rir
\* mode, by the selection of rir, by rir_measure, and by an rir
\* reconfiguration that changes a key other than echoAttenuation; the NLMS
\* coefficients change only by frames of lms mode, by nlms_reset and by an
\* nlms reconfiguration that changes filterLength.
C6_StateSurvivesOrRestarts ==
  [][/\ DelayLock(strategies') # DelayLock(strategies)
          => \/ Ran(ev', "timeAlignedSubtract")
             \/ /\ ev'.op = "setConfigs"
                /\ Has(ev'.arg, "timeAligned")
                /\ Has(ev'.arg.timeAligned, "minDelayMs")
                /\ DelayLock(strategies')
                     = [DelayLock(strategies) EXCEPT
                          !.delay = Max(@, MsToSamples(ev'.arg.timeAligned.minDelayMs))]
     /\ MeasuredIR(strategies') # MeasuredIR(strategies)
          => \/ Ran(ev', "rir")
             \/ Switches(ev'.op, ev'.arg, proc.mode) /\ proc'.mode = "rir"
             \/ ev'.op = "rir_measure"
             \/ RestartsRir(ev'.op, ev'.arg, strategies.rir.config)
     /\ Coefficients(strategies') # Coefficients(strategies)
          => \/ Ran(ev', "lms")
             \/ ev'.op = "nlms_reset"
             \/ Reconfigures(ev', "nlms", "filterLength", strategies.lms.config)]_vars

\* C6 witness: a delay lock was acquired in timeAlignedSubtract mode, the
\* mode was switched away, and a batch was then processed in the other mode
C6_Witness ==
  /\ strategies.timeAlignedSubtract.xCorr.foundXC
  /\ ev.op = "process"
  /\ ev.onFrame # <<>>
  /\ ev.onFrame[1].mode \in Registered \ {"timeAlignedSubtract"}

\* a ring buffer of the given size was fed the n samples of frame from pos on
Fed(before, pos, after, posAfter, size, frame, n) ==
  /\ posAfter = (pos + n) % size
  /\ \A i \in 0..(n - 1) : n - i <= size => after[(pos + i) % size] = frame[i]
  /\ \A k \in 0..(size - 1) :
       (\A i \in 0..(n - 1) : (pos + i) % size # k) => after[k] = before[k]

\* the updates the estimator has attempted and rejected
Rejections(xc) ==
  xc.delayUpdateCountRejectedNoTx + xc.delayUpdateCountRejectedNoRx
    + xc.delayUpdateCountRejectedPoorXCorr

\* C8: in timeAlignedSubtract mode, every output frame produced while the
\* estimator has never accepted an update is all zeros whatever the inputs,
\* and that frame is still written to the far-end history and fed to the
\* estimator (its two buffers written, the frame counted towards an update).
C8_SilentUntilLocked ==
  [][(Ran(ev', "timeAlignedSubtract") /\ ~strategies'.timeAlignedSubtract.xCorr.foundXC)
       => LET f == ev'.onFrame[1]
              ta == strategies.timeAlignedSubtract
              after == strategies'.timeAlignedSubtract
          IN /\ \A i \in 0..(f.nSamples - 1) : f.out[i] = 0
             /\ Fed(ta.farEndBuffer, ta.writePos, after.farEndBuffer, after.writePos,
                    ta.bufferSize, f.farEnd, f.nSamples)
             /\ Fed(ta.xCorr.nearEndBuffer, ta.xCorr.writePos, after.xCorr.nearEndBuffer,
                    after.xCorr.writePos, ta.xCorr.bufferSize, f.nearEnd, f.nSamples)
             /\ Fed(ta.xCorr.farEndBuffer, ta.xCorr.writePos, after.xCorr.farEndBuffer,
                    after.xCorr.writePos, ta.xCorr.bufferSize, f.farEnd, f.nSamples)
             /\ \/ after.xCorr.frameCounter = ta.xCorr.frameCounter + 1
                \/ /\ after.xCorr.frameCounter = 0
                   /\ Rejections(after.xCorr) = Rejections(ta.xCorr) + 1]_vars

\* C8 witness: a batch with sound at the near end was processed in
\* timeAlignedSubtract mode before any lock, and the quantum emitted is silent
C8_Witness ==
  /\ Ran(ev, "timeAlignedSubtract")
  /\ ~strategies.timeAlignedSubtract.xCorr.foundXC
  /\ \E i \in 0..(RenderQuantum - 1) : ev.arg.nearEnd[i] # 0
  /\ \A i \in 0..(RenderQuantum - 1) : ev.out[i] = 0
  /\ Rejections(strategies.timeAlignedSubtract.xCorr) > 0

\* ------------------------------------------------------------------------
\* EchoSpec: the echo path.  The worklet runs at EchoRate Hz in front of a
\* loudspeaker-to-microphone path of true delay env.d: the far end plays a
\* noise-like sequence, the near end is that sequence attenuated by one half
\* and delayed by env.d samples, with no other sound.  The page selects
\* timeAlignedSubtract with a delay update at every frame and a correlation
\* window no longer than the minimum delay (as 1024 samples are to 80 ms at
\* 48 kHz), and may raise the minimum delay once the estimator is locked.
\* ------------------------------------------------------------------------
\* the sample rate of the echo scenarios: 48000 Hz, scaled
EchoRate == 150

\* one period of a maximum-length sequence of order 7, at an amplitude of 0.2
FarEndNoise ==
  <<
    -2, -2, -2, -2, -2, -2,  2, -2, -2, -2, -2, -2,  2,  2, -2, -2,
    -2, -2,  2, -2,  2, -2, -2, -2,  2,  2,  2,  2, -2, -2,  2, -2,
    -2, -2,  2, -2,  2,  2, -2, -2,  2,  2,  2, -2,  2, -2,  2, -2,
    -2,  2,  2,  2,  2,  2, -2,  2, -2, -2, -2, -2,  2,  2,  2, -2,
    -2, -2,  2, -2, -2,  2, -2, -2,  2,  2, -2,  2,  2, -2,  2, -2,
     2,  2, -2,  2,  2,  2,  2, -2,  2,  2, -2, -2, -2,  2,  2, -2,
     2, -2, -2,  2, -2,  2,  2,  2, -2,  2,  2,  2, -2, -2,  2,  2,
    -2, -2,  2, -2,  2, -2,  2, -2,  2,  2,  2,  2,  2,  2,  2
  >>

\* the far-end sample at time t, and the near-end sample of a path of delay d
FarSig(t) == IF t < 0 THEN 0 ELSE FarEndNoise[(t % Len(FarEndNoise)) + 1]
NearSig(t, d) == FarSig(t - d) \div 2

FarQuantum(t) == [i \in 0..(RenderQuantum - 1) |-> FarSig(t + i)]
NearQuantum(t, d) == [i \in 0..(RenderQuantum - 1) |-> NearSig(t + i, d)]

\* the page's messages
EchoSetupPayload ==
  [mode |-> "timeAlignedSubtract",
   timeAligned |-> [updateIntervalFrames |-> 1, minDelayMs |-> 280,
                    echoTimeWindowSizeMs |-> 1000, xcorrWindowSize |-> 42]]
EchoRaisePayload == [timeAligned |-> [minDelayMs |-> 480]]

\* the true delays explored: minDelay <= d <= maxDelay - 1 under the
\* configuration of EchoSetupPayload
EchoMinDelay == (EchoRate * EchoSetupPayload.timeAligned.minDelayMs) \div 1000
EchoMaxDelay ==
  (EchoRate * EchoSetupPayload.timeAligned.echoTimeWindowSizeMs) \div 1000 - EchoMinDelay
EchoDelays == EchoMinDelay..(EchoMaxDelay - 1)

EchoInit == \E d \in EchoDelays : InitAt(EchoRate, d)

\* the page configures the worklet before audio flows
EchoSetup == cnt.msgs = 0 /\ SetConfigs(EchoSetupPayload)

\* one render quantum of the echo path
EchoFrame ==
  /\ cnt.msgs > 0
  /\ cnt.calls < MaxEchoCalls
  /\ ProcessCall(NearQuantum(env.t, env.d), FarQuantum(env.t), FALSE)
  /\ env' = [env EXCEPT !.t = @ + RenderQuantum]

\* the page raises the minimum delay, once, after the estimator has locked
EchoRaiseFloor ==
  /\ cnt.msgs = 1
  /\ strategies.timeAlignedSubtract.xCorr.foundXC
  /\ SetConfigs(EchoRaisePayload)

EchoNext ==
  \/ EchoSetup
  \/ EchoFrame
  \/ EchoRaiseFloor

EchoSpec == EchoInit /\ [][EchoNext]_vars

\* ------------------------------------------------------------------------
\* Properties of the echo path
\* ------------------------------------------------------------------------
\* C7: in timeAlignedSubtract mode, once the estimator is locked, every output
\* sample is the near-end sample minus echoAttenuation times the far-end
\* sample received exactly D samples earlier, D being the accepted delay at
\* that frame: every change of the accepted delay is used from the next
\* frame on.
C7_SubtractsAtAcceptedDelay ==
  [][(Ran(ev', "timeAlignedSubtract") /\ strategies'.timeAlignedSubtract.xCorr.foundXC)
       => LET f == ev'.onFrame[1]
              after == strategies'.timeAlignedSubtract
          IN \A i \in 0..(f.nSamples - 1) :
               f.out[i] = SubtractAligned(f.nearEnd[i], after.config.echoAttenuation,
                                          FarSig(env'.t - f.nSamples + i - after.xCorr.delay))]_vars

\* C9: after any frames, accepted or rejected updates and reconfigurations,
\* the estimator's delay is never below floor(sampleRate * minDelayMs / 1000).
C9_DelayAtLeastMinimum ==
  strategies.timeAlignedSubtract.xCorr.delay
    >= (env.sampleRate * strategies.timeAlignedSubtract.config.minDelayMs) \div 1000

\* C9 witness: the minimum delay was raised above the delay of a lock, and
\* frames were processed and updates rejected since
C9_Witness ==
  /\ ev.op = "process"
  /\ cnt.msgs = 2
  /\ strategies.timeAlignedSubtract.xCorr.foundXC
  /\ strategies.timeAlignedSubtract.xCorr.delayUpdateCount > 0
  /\ strategies.timeAlignedSubtract.xCorr.delayUpdateCountRejectedPoorXCorr > 0
  /\ strategies.timeAlignedSubtract.xCorr.delay
       = (env.sampleRate * EchoRaisePayload.timeAligned.minDelayMs) \div 1000
  /\ strategies.timeAlignedSubtract.lastDelay < strategies.timeAlignedSubtract.xCorr.delay

\* C10: the near end being the far end attenuated and delayed by d, with both
\* energies above their thresholds, for every d from minDelay to maxDelay - 1
\* the estimator, after enough update intervals (MaxEchoCalls of them), is
\* locked with an estimate within one fine-search step of d.
C10_ConvergesWithinFineStep ==
  (cnt.calls = MaxEchoCalls /\ cnt.msgs = 1)
    => /\ strategies.timeAlignedSubtract.xCorr.foundXC
       /\ Abs(strategies.timeAlignedSubtract.xCorr.delay - env.d) <= fineStep

\* ------------------------------------------------------------------------
\* NccSpec: the correlation score.  The echo path at unit gain: the near end
\* is the far end delayed by env.d samples, sample for sample.  The page
\* configures the estimator as in EchoSpec and may, at any time, raise the
\* minimum delay to more than half of the history (minDelay 90 of 150).
\* ------------------------------------------------------------------------
CopyQuantum(t, d) == [i \in 0..(RenderQuantum - 1) |-> FarSig(t + i - d)]

NccNarrowPayload == [timeAligned |-> [minDelayMs |-> 600]]

\* true delays on and off the grid of the search
NccDelays == {EchoMinDelay, EchoMinDelay + 6, EchoMinDelay + fineStep, EchoMinDelay + 24}

NccInit == \E d \in NccDelays : InitAt(EchoRate, d)

NccSetup == cnt.msgs = 0 /\ SetConfigs(EchoSetupPayload)

NccFrame ==
  /\ cnt.msgs > 0
  /\ cnt.calls < MaxEchoCalls
  /\ ProcessCall(CopyQuantum(env.t, env.d), FarQuantum(env.t), FALSE)
  /\ env' = [env EXCEPT !.t = @ + RenderQuantum]

NccNarrowSearch == cnt.msgs = 1 /\ SetConfigs(NccNarrowPayload)

NccNext ==
  \/ NccSetup
  \/ NccFrame
  \/ NccNarrowSearch

NccSpec == NccInit /\ [][NccNext]_vars

\* a score is a number of [-1, 1]
InUnitRange(v) == ~v.inf /\ v.s \in {-1, 0, 1} /\ v.n <= v.d
\* a score is 1
IsOne(v) == ~v.inf /\ v.s = 1 /\ v.n = v.d

\* the candidate delays of a search: minDelay + k * fineStep below maxDelay
Candidates(xc) ==
  {d \in xc.minDelay..(xc.bufferSize - xc.minDelay - 1) : (d - xc.minDelay) % fineStep = 0}

\* the near-end window equals the far-end window at the candidate delay, and
\* is not silent
SameWindow(xc, d, numSamples) ==
  /\ \A i \in 0..(numSamples - 1) : NccNear(xc, i) = NccFar(xc, d, i)
  /\ \E i \in 0..(numSamples - 1) : NccNear(xc, i) # 0

\* C11: every score the estimator computes, and the last score it records and
\* reports as xcScore, lies in [-1, 1]; the score is 0 when a window has no
\* energy, and 1 when the near-end window is identical to the far-end window
\* at the candidate delay.
C11_ScoreInUnitRange ==
  LET xc == strategies.timeAlignedSubtract.xCorr
      windowSize == Min(xc.xcorrWindowSize, xc.bufferSize)
  IN /\ InUnitRange(xc.lastXCorrScore)
     /\ \A d \in Candidates(xc) :
          LET numSamples == Min(windowSize, xc.bufferSize - d)
              sums == NccSums(xc, d, numSamples)
              ncc == XCorrHelper_computeNCC(xc, d, windowSize)
          IN /\ InUnitRange(ncc)
             /\ (sums.nearE = 0 \/ sums.farE = 0) => ncc = NccZero
             /\ SameWindow(xc, d, numSamples) => IsOne(ncc)

\* ------------------------------------------------------------------------
\* GateSpec: the half-duplex gate.  The worklet runs at GateRate Hz (a frame
\* of 40 ms: longer than the attack time of 10 ms, a fifth of the decay time
\* of 200 ms); the page selects halfDuplex, and may raise the threshold to
\* -6 dB once.  Every frame carries the same near-end sound, and a far end
\* that is silent, soft (RMS 0.158) or loud (RMS 1.0).  env.above and
\* env.silent count the frames in a row whose far-end RMS was above the
\* threshold, and was zero.
\* ------------------------------------------------------------------------
GateRate == 50

GateNearEnd == [i \in 0..(RenderQuantum - 1) |-> 3 - 4 * i]

GateFarEnds ==
  {[i \in 0..(RenderQuantum - 1) |-> 0],
   [i \in 0..(RenderQuantum - 1) |-> 1 + (i % 2)],
   [i \in 0..(RenderQuantum - 1) |-> FixedOne]}

GateThresholdPayload == [halfDuplex |-> [thresholdDb |-> -6]]

GateInit ==
  /\ env = [sampleRate |-> GateRate, t |-> 0, d |-> 0, above |-> 0, silent |-> 0]
  /\ proc = NoisyFauxECProcessor_new
  /\ strategies = Strategies_new
  /\ alive = TRUE
  /\ ev = [op |-> "constructor", arg |-> <<>>, selected |-> <<>>, threw |-> FALSE,
           onFrame |-> <<>>, out |-> <<>>, test |-> <<>>, posted |-> <<>>]
  /\ hist = NoBatch
  /\ cnt = [calls |-> 0, msgs |-> 0]

GateSetup ==
  /\ cnt.msgs = 0
  /\ SetMode("halfDuplex")

\* one render quantum: a logical frame, the batch multiplier being 1
GateFrame ==
  /\ cnt.msgs > 0
  /\ cnt.calls < MaxGateCalls
  /\ \E farEnd \in GateFarEnds :
       /\ ProcessCall(GateNearEnd, farEnd, FALSE)
       /\ env' = [env EXCEPT
                    !.t = @ + RenderQuantum,
                    !.above = IF FrameRms(farEnd, RenderQuantum)
                                   > _dbToLin(strategies.halfDuplex.config.thresholdDb)
                                THEN @ + 1 ELSE 0,
                    !.silent = IF FrameRms(farEnd, RenderQuantum) = 0 THEN @ + 1 ELSE 0]

\* the page raises the threshold: the frames in a row are counted anew
GateRaiseThreshold ==
  /\ cnt.msgs = 1
  /\ proc' = OnSetConfigs(proc, strategies, GateThresholdPayload).proc
  /\ strategies' = OnSetConfigs(proc, strategies, GateThresholdPayload).strategies
  /\ ev' = [op |-> "setConfigs", arg |-> GateThresholdPayload, selected |-> <<>>,
            threw |-> FALSE, onFrame |-> <<>>, out |-> <<>>, test |-> <<>>, posted |-> <<>>]
  /\ cnt' = [cnt EXCEPT !.msgs = @ + 1]
  /\ env' = [env EXCEPT !.above = 0]
  /\ UNCHANGED <<alive, hist>>

GateNext ==
  \/ GateSetup
  \/ GateFrame
  \/ GateRaiseThreshold

GateSpec == GateInit /\ [][GateNext]_vars

\* ------------------------------------------------------------------------
\* Properties of the half-duplex gate
\* ------------------------------------------------------------------------
\* every sample of a frame is zero
AllZero(frame, nSamples) == \A i \in 0..(nSamples - 1) : frame[i] = 0
\* two frames are equal sample for sample
SameFrame(a, b, nSamples) == \A i \in 0..(nSamples - 1) : a[i] = b[i]

\* the envelope exceeds the linear threshold 10^(thresholdDb / 20)
EnvelopeAbove(hd) == hd.farEndLevel > _dbToLin(hd.config.thresholdDb)

\* C12: in halfDuplex mode, for every frame, after the envelope has been
\* updated with the frame's far-end RMS (it moved from its old value towards
\* the RMS): the output frame is all zeros if the envelope exceeds the
\* threshold, and equals the near-end frame sample for sample otherwise.
C12_GateClosedOrTransparent ==
  [][Ran(ev', "halfDuplex")
       => LET f == ev'.onFrame[1]
              hd == strategies.halfDuplex
              after == strategies'.halfDuplex
              rms == FrameRms(f.farEnd, f.nSamples)
          IN /\ Min(hd.farEndLevel, rms) <= after.farEndLevel
             /\ after.farEndLevel <= Max(hd.farEndLevel, rms)
             /\ IF EnvelopeAbove(after)
                  THEN AllZero(f.out, f.nSamples)
                  ELSE SameFrame(f.out, f.nearEnd, f.nSamples)]_vars

\* C12 witness: the envelope crossed the threshold on a frame with sound at
\* the near end, and the frame came out silent
C12_Witness ==
  /\ Ran(ev, "halfDuplex")
  /\ EnvelopeAbove(strategies.halfDuplex)
  /\ strategies.halfDuplex.gatedFrames = 1
  /\ ~AllZero(ev.onFrame[1].nearEnd, RenderQuantum)
  /\ AllZero(ev.out, RenderQuantum)

\* C13: a 'gated' notification is posted exactly when the gate state computed
\* for a frame differs from the gate state of the previous halfDuplex frame
\* (open at first): one message carrying the new state per transition, none
\* on a frame that leaves the state as it was, and no step other than a
\* halfDuplex frame changes the state or posts the notification.
C13_NotifiedOncePerTransition ==
  [][IF Ran(ev', "halfDuplex")
       THEN /\ strategies'.halfDuplex.gated = EnvelopeAbove(strategies'.halfDuplex)
            /\ ev'.posted = IF strategies'.halfDuplex.gated # strategies.halfDuplex.gated
                              THEN <<[type |-> "gated",
                                      value |-> strategies'.halfDuplex.gated]>>
                              ELSE <<>>
       ELSE /\ strategies'.halfDuplex.gated = strategies.halfDuplex.gated
            /\ \A k \in DOMAIN ev'.posted : ev'.posted[k].type # "gated"]_vars

\* C13 witness: the gate, closed on earlier frames, stayed closed on a frame
\* that posted nothing
C13_Witness ==
  /\ Ran(ev, "halfDuplex")
  /\ strategies.halfDuplex.gated
  /\ strategies.halfDuplex.gatedFrames >= 2
  /\ ev.posted = <<>>

\* C14: if the far-end RMS of every frame has stayed above the threshold for
\* longer than the attack time, the output frame is all zeros; if the far end
\* has been silent for longer than the decay time, the output frame equals
\* the near-end frame.
C14_GateFollowsWithinTimeConstants ==
  Ran(ev, "halfDuplex")
    => LET f == ev.onFrame[1]
           config == strategies.halfDuplex.config
       IN /\ env.above * f.nSamples * 1000 > config.attackMs * env.sampleRate
               => AllZero(f.out, f.nSamples)
          /\ env.silent * f.nSamples * 1000 > config.decayMs * env.sampleRate
               => SameFrame(f.out, f.nearEnd, f.nSamples)

\* ------------------------------------------------------------------------
\* RirSpec: the impulse-response measurement.  The worklet runs at ControlRate
\* Hz in front of a loudspeaker-to-microphone path: while the measurer plays
\* its test signal, the near end is that signal through the path (nothing, one
\* tap at delay env.d, or a tap at env.d followed by one of half its size);
\* afterwards the near end is a fixed sound and the far end is noise.  The
\* page selects rir, with its default configuration or with one of the three
\* test signals and a measurement of 15 samples, and may ask for a new
\* measurement once.  env.t is the number of samples, env.frames the number
\* of frames, since the measurement was (re)started.
\* ------------------------------------------------------------------------
\* the test signals a page can select, and the configuration it sends
TestSignalPayload(type) ==
  [mode |-> "rir",
   rir |-> [testSignalType |-> type, diracPulseWidth |-> 2, mlsOrder |-> 3,
            measurementDurationMs |-> 950]]

\* the delays of the path: inside the impulse response (irLength 8), and beyond
PathDelays == {1, 4, 6, 10}
PathShapes == {"none", "tap", "smear"}

\* sample i of the signal played, silence outside it
Played(testSignal, i) == IF i \in DOMAIN testSignal THEN testSignal[i] ELSE 0

\* sample n of the test signal through the path
PathEcho(testSignal, n, d, shape) ==
  CASE shape = "none" -> 0
    [] shape = "tap" -> Played(testSignal, n - d)
    [] shape = "smear" ->
         Played(testSignal, n - d) + RoundDiv(Played(testSignal, n - d - 1), 2)

\* the near-end quantum at time t of a measurement
MeasuredQuantum(h, t, d, shape) ==
  [i \in 0..(RenderQuantum - 1) |->
     IF h.kind = "real" THEN PathEcho(h.testSignal, t + i, d, shape) ELSE 0]

RirInit ==
  /\ \E d \in PathDelays, shape \in PathShapes :
       env = [sampleRate |-> ControlRate, t |-> 0, d |-> d, shape |-> shape, frames |-> 0]
  /\ proc = NoisyFauxECProcessor_new
  /\ strategies = Strategies_new
  /\ alive = TRUE
  /\ ev = [op |-> "constructor", arg |-> <<>>, selected |-> <<>>, threw |-> FALSE,
           onFrame |-> <<>>, out |-> <<>>, test |-> <<>>, posted |-> <<>>]
  /\ hist = NoBatch
  /\ cnt = [calls |-> 0, msgs |-> 0]

\* the page selects rir with the default configuration
RirSelectDefault ==
  /\ cnt.msgs = 0
  /\ SetMode("rir")

\* the page selects rir and a test signal
RirSetup ==
  /\ cnt.msgs = 0
  /\ \E type \in ValidTestSignalTypes : SetConfigs(TestSignalPayload(type))

\* one render quantum: a logical frame, the batch multiplier being 1
RirFrame ==
  /\ cnt.msgs > 0
  /\ cnt.calls < MaxRirCalls
  /\ IF strategies.rir.rir.ready
       THEN ProcessCall(GateNearEnd, FarQuantum(env.t), FALSE)
       ELSE ProcessCall(MeasuredQuantum(strategies.rir.rir, env.t, env.d, env.shape),
                        FarQuantum(env.t), FALSE)
  /\ env' = [env EXCEPT !.t = @ + RenderQuantum, !.frames = @ + 1]

\* the page asks for a new measurement
RirRemeasure ==
  /\ cnt.msgs = 1
  /\ proc' = OnRirMeasure(proc, strategies).proc
  /\ strategies' = OnRirMeasure(proc, strategies).strategies
  /\ ev' = [op |-> "rir_measure", arg |-> <<>>,
            selected |-> OnRirMeasure(proc, strategies).selected,
            threw |-> OnRirMeasure(proc, strategies).threw,
            onFrame |-> <<>>, out |-> <<>>, test |-> <<>>, posted |-> <<>>]
  /\ cnt' = [cnt EXCEPT !.msgs = @ + 1]
  /\ env' = [env EXCEPT !.t = 0, !.frames = 0]
  /\ UNCHANGED <<alive, hist>>

RirNext ==
  \/ RirSelectDefault
  \/ RirSetup
  \/ RirFrame
  \/ RirRemeasure

RirSpec == RirInit /\ [][RirNext]_vars

\* ------------------------------------------------------------------------
\* Properties of the impulse-response measurement
\* ------------------------------------------------------------------------
\* Math.ceil(a / b)
CeilDiv(a, b) == (a + b - 1) \div b

\* A frame of rir mode, from the strategy rs to the strategy after: while the
\* measurer is not ready the output is muted, the near end is recorded and the
\* test signal played sample by sample until measureSamples samples are
\* recorded, and the measurer is ready exactly from the frame numbered
\* ceil(measureSamples / frameSize) on; once it is ready the frame is
\* cancelled: the measurer is left alone, the test channel is silent and the
\* far end enters the delay line.
RirFrameAsSpecified(rs, after, f, test, frames) ==
  LET h == rs.rir
      h2 == after.rir
  IN /\ h.measureSamples = MsToSamples(rs.config.measurementDurationMs)
     /\ IF ~h.ready
          THEN /\ AllZero(f.out, f.nSamples)
               /\ h2.recordPos = Min(h.recordPos + f.nSamples, h.measureSamples)
               /\ \A i \in 0..(f.nSamples - 1) :
                    IF h.recordPos + i < h.measureSamples
                      THEN /\ h2.recordBuffer[h.recordPos + i] = f.nearEnd[i]
                           /\ test[i] = Played(h.testSignal, h.recordPos + i)
                      ELSE test[i] = 0
               /\ h2.ready <=> frames >= CeilDiv(h.measureSamples, f.nSamples)
          ELSE /\ h2 = h
               /\ frames > CeilDiv(h.measureSamples, f.nSamples)
               /\ AllZero(test, f.nSamples)
               /\ after.farEndDelayPos
                    = (rs.farEndDelayPos + f.nSamples) % Len0(rs.farEndDelayLine)
               /\ after.farEndDelayLine[after.farEndDelayPos] = f.farEnd[f.nSamples - 1]

\* C15 (as stated): after rir is selected or an rir_measure is applied, while
\* rir stays the active mode, the measurer emits the test signal while
\* recording the near end, becomes ready once measureSamples samples are
\* recorded, that is within ceil(measureSamples / frameSize) frames, and
\* cancellation starts on the following frame.
C15_MeasurementCompletes ==
  [][Ran(ev', "rir")
       => /\ strategies.rir.rir.kind = "real"
          /\ RirFrameAsSpecified(strategies.rir, strategies'.rir, ev'.onFrame[1], ev'.test,
                                 env'.frames)]_vars

\* C15 (amended): the same, when the configured test signal is one of mls,
\* dirac_sine and dirac_square; with the test signal no_rir (the default) the
\* selection and rir_measure install the measurer that does nothing.
C15_MeasurementCompletesWithTestSignal ==
  [][Ran(ev', "rir")
       => IF strategies.rir.config.testSignalType \in ValidTestSignalTypes
            THEN /\ strategies.rir.rir.kind = "real"
                 /\ RirFrameAsSpecified(strategies.rir, strategies'.rir, ev'.onFrame[1],
                                        ev'.test, env'.frames)
            ELSE /\ strategies'.rir.rir = IRMeasurementHelperMock_new
                 /\ AllZero(ev'.onFrame[1].out, ev'.onFrame[1].nSamples)
                 /\ AllZero(ev'.test, ev'.onFrame[1].nSamples)]_vars

\* C15 witness: a measurement restarted by rir_measure has just completed, in
\* the middle of its last frame
C15_Witness ==
  /\ Ran(ev, "rir")
  /\ cnt.msgs = 2
  /\ strategies.rir.rir.kind = "real"
  /\ strategies.rir.rir.ready
  /\ strategies.rir.rir.recordPos = strategies.rir.rir.measureSamples
  /\ env.frames = CeilDiv(strategies.rir.rir.measureSamples, RenderQuantum)
  /\ env.frames * RenderQuantum > strategies.rir.rir.measureSamples

\* the RMS of the recording is below 0.005
RecordedNearSilence(h) ==
  40000 * SumSquares(h.recordBuffer, 0, h.recordPos) < FixedOne * FixedOne * h.recordPos

\* C16: when the RMS of the near end recorded over a measurement is below
\* 0.005, the measurement completes with ready true, the acquired flag false
\* and an empty trimmed impulse response, no error is raised, and every
\* later frame of rir mode comes out equal to the near-end frame.
C16_SilentMeasurementIsNoOp ==
  [][(Ran(ev', "rir") /\ strategies.rir.rir.kind = "real")
       => LET h == strategies.rir.rir
              h2 == strategies'.rir.rir
              f == ev'.onFrame[1]
          IN /\ (~h.ready /\ h2.recordPos >= h2.measureSamples /\ RecordedNearSilence(h2))
                  => /\ h2.ready
                     /\ ~h2.irAcquired
                     /\ h2.irTrimmedSet
                     /\ Len0(h2.irTrimmed) = 0
                     /\ ~ev'.threw
             /\ (h.ready /\ RecordedNearSilence(h))
                  => /\ SameFrame(f.out, f.nearEnd, f.nSamples)
                     /\ ~ev'.threw]_vars

\* C16 witness: after a measurement that recorded silence, a frame with sound
\* at both ends came out equal to its near end
C16_Witness ==
  /\ Ran(ev, "rir")
  /\ strategies.rir.rir.kind = "real"
  /\ RecordedNearSilence(strategies.rir.rir)
  /\ strategies.rir.rir.ready
  /\ ~strategies.rir.rir.irAcquired
  /\ ~AllZero(ev.onFrame[1].farEnd, RenderQuantum)
  /\ ~AllZero(ev.out, RenderQuantum)
  /\ SameFrame(ev.out, ev.onFrame[1].nearEnd, RenderQuantum)

\* the sum of the absolute values of the trimmed coefficients is 1, to within
\* the rounding of the stored coefficients
L1IsOne(irTrimmed) ==
  Abs(SumAbs(irTrimmed, 0, Len0(irTrimmed)) - CoefOne) <= Len0(irTrimmed)

\* C17 (as stated): whenever the measurer is ready with a non-empty trimmed
\* impulse response, the absolute values of its coefficients sum to 1.
C17_TrimmedIsL1Normalized ==
  LET h == strategies.rir.rir
  IN (h.kind = "real" /\ h.ready /\ Len0(h.irTrimmed) > 0) => L1IsOne(h.irTrimmed)

\* C17 (amended): whenever the measurer is ready with a non-empty trimmed
\* impulse response, the absolute values of its coefficients sum to 1, unless
\* the sum found before the normalization was not above 1e-6: the coefficients
\* are then left as they were found (all zero).
C17_TrimmedIsL1NormalizedOrZero ==
  LET h == strategies.rir.rir
  IN (h.kind = "real" /\ h.ready /\ Len0(h.irTrimmed) > 0)
       => IF h.irSumBeforeNorm > 0
            THEN L1IsOne(h.irTrimmed)
            ELSE \A i \in DOMAIN h.irTrimmed : h.irTrimmed[i] = 0

\* C17 witness: the strategy is cancelling with a measured response of several
\* coefficients, found with a sum other than 1
C17_Witness ==
  /\ Ran(ev, "rir")
  /\ strategies.rir.rir.kind = "real"
  /\ strategies.rir.rir.ready
  /\ strategies.rir.rir.irAcquired
  /\ Len0(strategies.rir.rir.irTrimmed) > 1
  /\ strategies.rir.rir.irSumBeforeNorm > CoefOne
  /\ L1IsOne(strategies.rir.rir.irTrimmed)
  /\ ~AllZero(ev.out, RenderQuantum)

\* the last sample of the test signal that is not silence
LastSound(testSignal) ==
  CHOOSE i \in DOMAIN testSignal :
    /\ testSignal[i] # 0
    /\ \A j \in DOMAIN testSignal : j > i => testSignal[j] = 0

NlmsPayloads ==
  {[nlms |-> [filterLength |-> 2]],
   [nlms |-> [stepSize |-> 3, leakage |-> 9000, epsilon |-> 2, minDelayMs |-> 70]],
   [nlms |-> [filterLength |-> 4, stepSize |-> 5]],
   [nlms |-> [filterLength |-> -1]]}

NlmsInit == InitAt(ControlRate, 0)

NlmsSetup == cnt.msgs = 0 /\ SetMode("lms")

NlmsFrame ==
  /\ cnt.msgs > 0
  /\ cnt.calls < MaxNlmsCalls
  /\ \E q \in Quanta : Process(q.nearEnd, q.farEnd, q.overrun)

NlmsReconfigure ==
  /\ cnt.msgs \in 1..(MaxNlmsMsgs - 1)
  /\ \E value \in NlmsPayloads : SetConfigs(value)

NlmsResetFilter == cnt.msgs \in 1..(MaxNlmsMsgs - 1) /\ NlmsReset

NlmsNext == NlmsSetup \/ NlmsFrame \/ NlmsReconfigure \/ NlmsResetFilter

NlmsSpec == NlmsInit /\ [][NlmsNext]_vars

\* the coefficients and the delay line are zero at the configured length and
\* the cursor is at its initial position
FilterCleared(ls) ==
  /\ ls.h = Float32Array(ls.config.filterLength)
  /\ ls.xBuf = Float32Array(ls.config.filterLength)
  /\ ls.xBufPos = 0

\* C19: an nlms_reset zeroes every coefficient and delay-line sample and the
\* cursor and leaves filterLength, stepSize, leakage, epsilon and minDelayMs
\* unchanged; an nlms configuration that changes filterLength reinitializes
\* coefficients and delay line at the new length; one that changes only the
\* other keys leaves coefficients, delay line and cursor unchanged; in every
\* reachable state the coefficients and the delay line both have length
\* filterLength.
C19_ResetAndReconfigure ==
  [][LET ls == strategies.lms
         after == strategies'.lms
     IN /\ ev'.op = "nlms_reset"
             => FilterCleared(after) /\ after.config = ls.config
        /\ (ev'.op = "setConfigs" /\ Has(ev'.arg, "nlms"))
             => IF NlmsNeedsInit(ev'.arg.nlms, ls.config.filterLength)
                  THEN /\ FilterCleared(after)
                       /\ after.config.filterLength = ev'.arg.nlms.filterLength
                  ELSE /\ after.h = ls.h
                       /\ after.xBuf = ls.xBuf
                       /\ after.xBufPos = ls.xBufPos
        /\ Len0(after.h) = after.config.filterLength
        /\ Len0(after.xBuf) = after.config.filterLength]_vars

\* ------------------------------------------------------------------------
\* DebugSpec: the debug capture.  The worklet runs at 1 Hz, so that the
\* capacity of a track (30 s) is 30 samples; the batch size and the mode are
\* set, then frames interleave with startDebugRecording and
\* stopDebugRecording.  env keeps what was dispatched since the last
\* startDebugRecording: the number of logical frames and their samples.
\* ------------------------------------------------------------------------
DebugRate == 1

\* sample n of the near end and of the far end
DebugNearEnd(t) == [i \in 0..(RenderQuantum - 1) |-> ((t + i) % 7) + 1]
DebugFarEnd(t) == [i \in 0..(RenderQuantum - 1) |-> 2 * ((t + i) % 3)]

DebugModes == {"passthrough", "naiveSubtract"}

NothingCaptured == [started |-> FALSE, frames |-> 0, nearEnd |-> <<>>, farEnd |-> <<>>,
                    output |-> <<>>]

\* the samples of a frame after those already dispatched
Captured(samples, frame, nSamples) == samples \o [i \in 1..nSamples |-> frame[i - 1]]

DebugInit ==
  /\ env = [sampleRate |-> DebugRate, t |-> 0, d |-> 0, since |-> NothingCaptured]
  /\ proc = NoisyFauxECProcessor_new
  /\ strategies = Strategies_new
  /\ alive = TRUE
  /\ ev = [op |-> "constructor", arg |-> <<>>, selected |-> <<>>, threw |-> FALSE,
           onFrame |-> <<>>, out |-> <<>>, test |-> <<>>, posted |-> <<>>]
  /\ hist = NoBatch
  /\ cnt = [calls |-> 0, msgs |-> 0]

DebugSetBatch == cnt.msgs = 0 /\ \E count \in 1..2 : SetBufferFrameCount(count)

DebugSelect == cnt.msgs = 1 /\ \E mode \in DebugModes : SetMode(mode)

DebugFrame ==
  /\ cnt.msgs > 1
  /\ cnt.calls < MaxDebugCalls
  /\ ProcessCall(DebugNearEnd(env.t), DebugFarEnd(env.t), FALSE)
  /\ env' = [env EXCEPT
               !.t = @ + RenderQuantum,
               !.since = IF @.started /\ ev'.onFrame # <<>>
                           THEN LET f == ev'.onFrame[1]
                                IN [started |-> TRUE,
                                    frames |-> @.frames + 1,
                                    nearEnd |-> Captured(@.nearEnd, f.nearEnd, f.nSamples),
                                    farEnd |-> Captured(@.farEnd, f.farEnd, f.nSamples),
                                    output |-> Captured(@.output, f.out, f.nSamples)]
                           ELSE @]

DebugStart ==
  /\ cnt.msgs \in 2..(MaxDebugMsgs - 1)
  /\ proc' = NoisyFauxECProcessor_startDebugRecording(proc, strategies).proc
  /\ strategies' = NoisyFauxECProcessor_startDebugRecording(proc, strategies).strategies
  /\ ev' = [op |-> "startDebugRecording", arg |-> <<>>, selected |-> <<>>,
            threw |-> NoisyFauxECProcessor_startDebugRecording(proc, strategies).threw,
            onFrame |-> <<>>, out |-> <<>>, test |-> <<>>,
            posted |-> NoisyFauxECProcessor_startDebugRecording(proc, strategies).posted]
  /\ cnt' = [cnt EXCEPT !.msgs = @ + 1]
  /\ env' = [env EXCEPT !.since = [NothingCaptured EXCEPT !.started = TRUE]]
  /\ UNCHANGED <<alive, hist>>

DebugStop ==
  /\ cnt.msgs \in 2..(MaxDebugMsgs - 1)
  /\ proc' = NoisyFauxECProcessor_stopDebugRecording(proc, strategies).proc
  /\ strategies' = NoisyFauxECProcessor_stopDebugRecording(proc, strategies).strategies
  /\ ev' = [op |-> "stopDebugRecording", arg |-> <<>>, selected |-> <<>>,
            threw |-> NoisyFauxECProcessor_stopDebugRecording(proc, strategies).threw,
            onFrame |-> <<>>, out |-> <<>>, test |-> <<>>,
            posted |-> NoisyFauxECProcessor_stopDebugRecording(proc, strategies).posted]
  /\ cnt' = [cnt EXCEPT !.msgs = @ + 1]
  /\ env' = [env EXCEPT !.since.started = FALSE]
  /\ UNCHANGED <<alive, hist>>

DebugNext == DebugSetBatch \/ DebugSelect \/ DebugFrame \/ DebugStart \/ DebugStop

DebugSpec == DebugInit /\ [][DebugNext]_vars

\* the track is the first n of the samples dispatched, in order
TrackHolds(track, name, dispatched, n) ==
  /\ track.name = name
  /\ Len0(track.samples) = n
  /\ \A k \in 0..(n - 1) : track.samples[k] = dispatched[k + 1]

\* C20: a stopDebugRecording applied after T logical frames were dispatched
\* since startDebugRecording returns near-end, far-end and output tracks of
\* length min(T * frameSize, capacity), capacity being 30 s of samples,
\* holding the dispatched samples in order; the write position never exceeds
\* the capacity, and exceeding the capacity raises no error.
C20_TracksTruncatedAtCapacity ==
  [][/\ (ev'.op = "stopDebugRecording" /\ env.since.started)
          => LET n == Min(env.since.frames * proc.bufferSize, 30 * sampleRate)
                 tracks == ev'.posted[1].value.tracks
             IN /\ Len(ev'.posted) = 1
                /\ ev'.posted[1].type = "debugTracks"
                /\ Len(tracks) = 3
                /\ TrackHolds(tracks[1], "nearEnd.wav", env.since.nearEnd, n)
                /\ TrackHolds(tracks[2], "farEnd.wav", env.since.farEnd, n)
                /\ TrackHolds(tracks[3], "output.wav", env.since.output, n)
     /\ proc'.debugWritePos <= 30 * sampleRate
     /\ ~ev'.threw]_vars

\* C20 witness: a capture of batches of two quanta stopped after more frames
\* than the capacity holds, the last frame recorded in part
C20_Witness ==
  /\ ev.op = "stopDebugRecording"
  /\ proc.bufferFrameCount = 2
  /\ proc.mode = "naiveSubtract"
  /\ (env.since.frames - 1) * proc.bufferSize < 30 * sampleRate
  /\ env.since.frames * proc.bufferSize > 30 * sampleRate
  /\ Len(ev.posted[1].value.tracks) = 3
  /\ Len0(ev.posted[1].value.tracks[3].samples) = 30 * sampleRate

\* ------------------------------------------------------------------------
\* TrackSpec: the debug tracks under mode switches.  rir is selected with a
\* measurement of four samples, then frames interleave with
\* startDebugRecording, stopDebugRecording and mode switches.
\* ------------------------------------------------------------------------
TrackSetupPayload ==
  [mode |-> "rir",
   rir |-> [testSignalType |-> "dirac_square", diracPulseWidth |-> 2,
            measurementDurationMs |-> 250]]

TrackModes == {"passthrough", "timeAlignedSubtract", "rir"}

TrackNearEnd == [i \in 0..(RenderQuantum - 1) |-> i + 1]
TrackFarEnd == [i \in 0..(RenderQuantum - 1) |-> 2]

TrackInit == InitAt(ControlRate, 0)

TrackSetup == cnt.msgs = 0 /\ SetConfigs(TrackSetupPayload)

TrackFrame ==
  /\ cnt.msgs > 0
  /\ cnt.calls < MaxTrackCalls
  /\ Process(TrackNearEnd, TrackFarEnd, FALSE)

TrackStart == cnt.msgs \in 1..(MaxTrackMsgs - 1) /\ StartDebugRecording

TrackStop == cnt.msgs \in 1..(MaxTrackMsgs - 1) /\ StopDebugRecording

TrackSwitch == cnt.msgs \in 1..(MaxTrackMsgs - 1) /\ \E mode \in TrackModes : SetMode(mode)

TrackNext == TrackSetup \/ TrackFrame \/ TrackStart \/ TrackStop \/ TrackSwitch

TrackSpec == TrackInit /\ [][TrackNext]_vars

\* the debug tracks: the processor's, the aligned far end, the echo estimate
DebugBuffers(p, s) ==
  <<p.debugTracks, p.debugWritePos,
    s.timeAlignedSubtract.debugAlignedFarEnd, s.timeAlignedSubtract.debugWritePos,
    s.rir.debugEchoEstimate, s.rir.debugWritePos>>

\* C21: the debug tracks, the processor's and the strategies' own, receive
\* samples only while the debug-recording flag is set: a process call made
\* while the flag is clear writes to none of them, whatever mode switches were
\* made during or after a recording.
C21_TracksWrittenOnlyWhileRecording ==
  [][(ev'.op = "process" /\ ~proc.debugRecording)
       => DebugBuffers(proc', strategies') = DebugBuffers(proc, strategies)]_vars

\* ------------------------------------------------------------------------
\* SearchSpec: the delay estimator under reconfiguration.  timeAlignedSubtract
\* is selected with an update on every second frame; frames of an echo path,
\* with or without sound at either end, interleave with reconfigurations and
\* mode switches.
\* ------------------------------------------------------------------------
SearchSetupPayload ==
  [mode |-> "timeAlignedSubtract",
   timeAligned |-> [updateIntervalFrames |-> 2, xcorrWindowSize |-> 4, stepSize |-> 2]]

\* a step of zero, a longer history, a threshold no score passes, a switch
\* away and a switch back
SearchPayloads ==
  {[timeAligned |-> [stepSize |-> 0]],
   [timeAligned |-> [echoTimeWindowSizeMs |-> 1000]],
   [timeAligned |-> [nxcThreshold |-> 101]],
   [mode |-> "passthrough"],
   [mode |-> "timeAlignedSubtract"]}

SearchDelays == {1, 3}

\* which ends of the path carry sound during a frame
SearchSounds == {"both", "far", "near"}

SearchNearEnd(sound, t, d) ==
  IF sound = "far" THEN Float32Array(RenderQuantum) ELSE NearQuantum(t, d)
SearchFarEnd(sound, t) ==
  IF sound = "near" THEN Float32Array(RenderQuantum) ELSE FarQuantum(t)

SearchInit == \E d \in SearchDelays : InitAt(ControlRate, d)

SearchSetup == cnt.msgs = 0 /\ SetConfigs(SearchSetupPayload)

SearchFrame ==
  /\ cnt.msgs > 0
  /\ cnt.calls < MaxSearchCalls
  /\ \E sound \in SearchSounds :
       ProcessCall(SearchNearEnd(sound, env.t, env.d), SearchFarEnd(sound, env.t), FALSE)
  /\ env' = [env EXCEPT !.t = @ + RenderQuantum]

SearchReconfigure ==
  /\ cnt.msgs \in 1..(MaxSearchMsgs - 1)
  /\ \E value \in SearchPayloads : SetConfigs(value)

SearchNext == SearchSetup \/ SearchFrame \/ SearchReconfigure

SearchSpec == SearchInit /\ [][SearchNext]_vars

\* C22: every process call terminates under every configuration reachable
\* through control messages: the coarse and the fine search of the delay
\* estimator leave their loops for every stepSize a timeAligned configuration
\* can set, 0 included.
C22_EveryCallTerminates ==
  ~strategies.timeAlignedSubtract.xCorr.spinning

\* ------------------------------------------------------------------------
\* AdaptSpec: the adaptive filter sample by sample.  lms is selected with a
\* minimum delay below, at or above the filter length (4 taps); frames of an
\* echo path of delay 1, with or without sound at the far end, follow, and
\* the page retunes the filter once.
\* ------------------------------------------------------------------------
\* minDelayMs 0, 70, 250 and 700 are 0, 1, 4 and 11 samples; epsilon 5000000
\* is 0.05
NlmsTunings ==
  {[minDelayMs |-> 0, leakage |-> 9000],
   [minDelayMs |-> 70, leakage |-> 9000],
   [minDelayMs |-> 70, leakage |-> 9000, epsilon |-> 5000000],
   [minDelayMs |-> 250],
   [minDelayMs |-> 700]}

AdaptSounds == {"both", "near"}

AdaptInit == InitAt(ControlRate, 1)

AdaptSetup ==
  /\ cnt.msgs = 0
  /\ \E tuning \in NlmsTunings : SetConfigs([mode |-> "lms", nlms |-> tuning])

AdaptFrame ==
  /\ cnt.msgs > 0
  /\ cnt.calls < MaxAdaptCalls
  /\ \E sound \in AdaptSounds :
       ProcessCall(NearQuantum(env.t, env.d), SearchFarEnd(sound, env.t), FALSE)
  /\ env' = [env EXCEPT !.t = @ + RenderQuantum]

AdaptRetune ==
  /\ cnt.msgs = 1
  /\ \E tuning \in NlmsTunings : SetConfigs([nlms |-> tuning])

AdaptNext == AdaptSetup \/ AdaptFrame \/ AdaptRetune

AdaptSpec == AdaptInit /\ [][AdaptNext]_vars

\* the loop of NLMSStrategy.onFrame after the first k samples of frame f
AfterSamples(ls, f, k) ==
  NlmsSampleLoop([self |-> ls,
                  xPower |-> TapEnergy(ls.xBuf, ls.xBufPos, ls.minDelaySamples,
                                       ls.config.filterLength),
                  nan |-> FALSE,
                  out |-> f.out],
                 f.nearEnd, f.farEnd, 0, k)

\* idx is an index of buf
InBuffer(idx, buf) == idx >= 0 /\ idx < Len0(buf)

\* the indices NLMSStrategy.onFrame uses at a sample, the cursor being at pos
\* after its advance
NlmsIndicesInBuffer(ls, pos) ==
  LET len == ls.config.filterLength
  IN /\ InBuffer(pos, ls.xBuf)
     /\ InBuffer(JsMod(pos - ls.minDelaySamples + len, len), ls.xBuf)
     /\ \A j \in ls.minDelaySamples..(len - 1) : InBuffer(JsMod(pos - j + len, len), ls.xBuf)

\* the indices TimeAlignedSubtractStrategy.onFrame uses to read its history
AlignedIndicesInBuffer(ta, nSamples) ==
  LET readStart == JsMod(ta.writePos - nSamples - Min(ta.lastDelay, ta.bufferSize - 1)
                         + ta.bufferSize * 5, ta.bufferSize)
  IN /\ InBuffer(ta.writePos, ta.farEndBuffer)
     /\ ta.xCorr.foundXC
          => \A i \in 0..(nSamples - 1) :
               InBuffer(JsMod(readStart + i, ta.bufferSize), ta.farEndBuffer)

\* the indices RIRStrategy.onFrame uses on its delay line while cancelling
RirIndicesInBuffer(rs, nSamples) ==
  LET len == Len0(rs.farEndDelayLine)
  IN \A i \in 1..nSamples :
       /\ InBuffer(JsMod(rs.farEndDelayPos + i, len), rs.farEndDelayLine)
       /\ \A k \in 0..(Len0(rs.rir.irTrimmed) - 1) :
            InBuffer(JsMod(JsMod(rs.farEndDelayPos + i, len) - rs.rir.irDelayOffset - k
                           + 5 * len, len),
                     rs.farEndDelayLine)

\* C23: every index used to read or write a circular buffer lies in
\* [0, buffer length), for every configuration reachable through control
\* messages, a minimum delay larger than the buffer included: the NLMS delay
\* line at every sample, the time-aligned strategy's far-end history and the
\* RIR delay line at every frame.
C23_IndicesInBuffer ==
  [][/\ Ran(ev', "lms")
          => \A k \in 1..ev'.onFrame[1].nSamples :
               NlmsIndicesInBuffer(strategies.lms,
                                   AfterSamples(strategies.lms, ev'.onFrame[1], k).self.xBufPos)
     /\ Ran(ev', "timeAlignedSubtract")
          => AlignedIndicesInBuffer(strategies'.timeAlignedSubtract, ev'.onFrame[1].nSamples)
     /\ (Ran(ev', "rir") /\ strategies.rir.rir.ready)
          => RirIndicesInBuffer(strategies.rir, ev'.onFrame[1].nSamples)]_vars

\* the sum of the squares of the delay-line samples at offsets minDelay .. L-1
\* behind the cursor, computed directly
RECURSIVE DirectEnergy(_, _, _, _)
DirectEnergy(xBuf, pos, j, len) ==
  IF j >= len THEN 0
  ELSE xBuf[(pos - j + len) % len] * xBuf[(pos - j + len) % len]
       + DirectEnergy(xBuf, pos, j + 1, len)

\* C27: at every sample processed by the NLMS strategy the incrementally
\* maintained window energy equals the sum of the squares of the delay-line
\* samples at offsets minDelay .. L-1 behind the cursor, for every minimum
\* delay and filter length, minDelay = 0 and minDelay >= L included.
C27_IncrementalEnergyIsWindowEnergy ==
  [][Ran(ev', "lms")
       => \A k \in 1..ev'.onFrame[1].nSamples :
            LET c == AfterSamples(strategies.lms, ev'.onFrame[1], k)
            IN /\ ~c.nan
               /\ c.xPower = DirectEnergy(c.self.xBuf, c.self.xBufPos,
                                          c.self.minDelaySamples,
                                          c.self.config.filterLength)]_vars

\* the k-th sample (from 0) of frame f as the spec describes it, from the
\* state c before it to the state c2 after it: est is the echo estimate over
\* the taps from minDelay on, taken with the coefficients before the update
SampleAsSpecified(c, c2, f, k) ==
  LET ls == c.self
      len == ls.config.filterLength
      minDelay == ls.minDelaySamples
      pos == c2.self.xBufPos
      x == c2.self.xBuf
      est == RangeSum([j \in minDelay..(len - 1) |-> ls.h[j] * x[(pos - j + len) % len]],
                      minDelay, len - 1)
      err == f.nearEnd[k] * CoefOne - est
  IN /\ c2.out[k] = RoundDiv(err, CoefOne)
     /\ \A j \in 0..(Min(minDelay, len) - 1) : c2.self.h[j] = ls.h[j]
     /\ IF ~c2.nan /\ c2.xPower < CeilDiv(ls.config.epsilon, 1000000)
          THEN /\ c2.self.h = ls.h
               /\ c2.self.filterUpdates = ls.filterUpdates
          ELSE /\ c2.self.filterUpdates = ls.filterUpdates + 1
               /\ \A j \in minDelay..(len - 1) :
                    c2.self.h[j] = RoundSum(ls.config.leakage * ls.h[j], 10000,
                                            ls.config.stepSize * err * x[(pos - j + len) % len],
                                            FixedOne * c2.xPower)

\* C28: for each sample whose window energy is below epsilon no coefficient
\* changes and the update counter does not advance, the output still being
\* nearEnd minus the echo estimate; otherwise every tap j in [minDelay, L)
\* becomes leakage * h[j] + (stepSize / energy) * error * x[cursor - j], the
\* error taken before the update; taps below minDelay are neither read nor
\* modified.
C28_SampleUpdate ==
  [][Ran(ev', "lms")
       => \A k \in 0..(ev'.onFrame[1].nSamples - 1) :
            SampleAsSpecified(AfterSamples(strategies.lms, ev'.onFrame[1], k),
                              AfterSamples(strategies.lms, ev'.onFrame[1], k + 1),
                              ev'.onFrame[1], k)]_vars

\* some samples since the setup were skipped for want of energy, others have
\* adapted the taps from minDelay on, under a leakage of 0.9
C28_Witness ==
  /\ Ran(ev, "lms")
  /\ cnt.msgs = 1
  /\ strategies.lms.minDelaySamples = 1
  /\ strategies.lms.config.leakage = 9000
  /\ strategies.lms.filterUpdates > 1
  /\ strategies.lms.filterUpdates < cnt.calls * RenderQuantum
  /\ strategies.lms.h[0] = 0
  /\ \E j \in 1..3 : strategies.lms.h[j] >= 10 \/ strategies.lms.h[j] <= -10

\* ------------------------------------------------------------------------
\* The delay estimator's update attempts
\* ------------------------------------------------------------------------
UpdateCounters(xc) ==
  <<xc.delayUpdateCountRejectedNoTx, xc.delayUpdateCountRejectedNoRx,
    xc.delayUpdateCountRejectedPoorXCorr, xc.delayUpdateCount>>

\* counters with the k-th one advanced by one
Advanced(counters, k) == [counters EXCEPT ![k] = @ + 1]

\* the RMS of the last numSamples samples of a history is below a threshold
QuietHistory(buf, xc, thresholdLin) ==
  LET numSamples == Min(xc.xcorrWindowSize, xc.bufferSize)
  IN RmsBelow(WindowEnergy(buf, xc, numSamples), numSamples, thresholdLin)

\* the candidates of the coarse search
CoarseCandidates(xc) ==
  {d \in xc.minDelay..(xc.bufferSize - xc.minDelay - 1) :
     xc.stepSize > 0 /\ (d - xc.minDelay) % xc.stepSize = 0}

ScoreAt(xc, d) == XCorrHelper_computeNCC(xc, d, Min(xc.xcorrWindowSize, xc.bufferSize))

\* the frame about to be fed to the estimator xc completes an update interval
AttemptDue(xc) == xc.frameCounter + 1 >= xc.updateIntervalFrames

\* the four outcomes of an attempt that took xc to xc2
AttemptOutcome(xc, xc2) ==
  IF QuietHistory(xc2.nearEndBuffer, xc2, xc2.txThresholdLin) THEN "noTx"
  ELSE IF QuietHistory(xc2.farEndBuffer, xc2, xc2.rxThresholdLin) THEN "noRx"
  ELSE IF UpdateCounters(xc2) = Advanced(UpdateCounters(xc), 3) THEN "poorXCorr"
  ELSE "accepted"

AttemptAsSpecified(xc, xc2) ==
  LET outcome == AttemptOutcome(xc, xc2)
  IN /\ outcome = "noTx" => UpdateCounters(xc2) = Advanced(UpdateCounters(xc), 1)
     /\ outcome = "noRx" => UpdateCounters(xc2) = Advanced(UpdateCounters(xc), 2)
     /\ outcome = "poorXCorr" => NccBelow(xc2.lastXCorrScore, xc2.nxcThreshold)
     /\ outcome # "accepted" => (xc2.delay = xc.delay /\ xc2.foundXC = xc.foundXC)
     /\ outcome = "accepted"
          => /\ UpdateCounters(xc2) = Advanced(UpdateCounters(xc), 4)
             /\ ~NccBelow(xc2.lastXCorrScore, xc2.nxcThreshold)
             /\ xc2.foundXC
             /\ ScoreAt(xc2, xc2.delay) = xc2.lastXCorrScore
             /\ \A d \in CoarseCandidates(xc2) : ~NccGt(ScoreAt(xc2, d), xc2.lastXCorrScore)

\* C24: each delay-update attempt (one every updateIntervalFrames frames fed)
\* has exactly one of four outcomes and advances exactly one counter: near-end
\* energy below its threshold, far-end energy below its threshold, best score
\* below nxcThreshold, or accepted.  A rejected attempt leaves the delay and
\* the lock unchanged; an accepted one sets the delay to the best-scoring
\* candidate and the lock to true.
C24_AttemptHasOneOutcome ==
  [][(Ran(ev', "timeAlignedSubtract") /\ AttemptDue(strategies.timeAlignedSubtract.xCorr))
       => AttemptAsSpecified(strategies.timeAlignedSubtract.xCorr,
                             strategies'.timeAlignedSubtract.xCorr)]_vars

\* ------------------------------------------------------------------------
\* GridSpec: the candidates of the two searches.  The echo path of EchoSpec
\* with a coarse step of 30 samples (three coarse candidates, up to five fine
\* ones around the best of them); once the history has filled, the page may
\* set the step to 18.
\* ------------------------------------------------------------------------
GridSetupPayload ==
  [mode |-> "timeAlignedSubtract",
   timeAligned |-> [updateIntervalFrames |-> 1, minDelayMs |-> 280,
                    echoTimeWindowSizeMs |-> 1000, xcorrWindowSize |-> 42,
                    stepSize |-> 30]]
GridRestepPayload == [timeAligned |-> [stepSize |-> 18]]

GridDelays == {EchoMinDelay + 8, EchoMinDelay + 12, EchoMinDelay + 24, EchoMinDelay + 30,
               EchoMinDelay + 42}

GridInit == \E d \in GridDelays : InitAt(EchoRate, d)

GridSetup == cnt.msgs = 0 /\ SetConfigs(GridSetupPayload)

GridFrame ==
  /\ cnt.msgs > 0
  /\ cnt.calls < MaxGridCalls
  /\ ProcessCall(NearQuantum(env.t, env.d), FarQuantum(env.t), FALSE)
  /\ env' = [env EXCEPT !.t = @ + RenderQuantum]

GridRestep ==
  /\ cnt.msgs = 1
  /\ cnt.calls >= 40
  /\ SetConfigs(GridRestepPayload)

GridNext == GridSetup \/ GridFrame \/ GridRestep

GridSpec == GridInit /\ [][GridNext]_vars

\* the candidates cands with their scores
Scored(xc, cands) == {[at |-> d, nxc |-> ScoreAt(xc, d)] : d \in cands}

\* the first of the scored candidates with the greatest score
FirstBest(scored) ==
  CHOOSE p \in scored :
    \A q \in scored : /\ ~NccGt(q.nxc, p.nxc)
                      /\ q.at < p.at => NccGt(p.nxc, q.nxc)

\* the candidates of the fine search around the coarse best
FineCandidates(xc, coarseBest) ==
  LET fineStart == Max(xc.minDelay, coarseBest - xc.stepSize)
      fineEnd == Min(xc.bufferSize - xc.minDelay, coarseBest + xc.stepSize)
  IN {d \in fineStart..(fineEnd - 1) : (d - fineStart) % 12 = 0}

\* the result of the fine search: the coarse best unless a fine candidate
\* scores strictly more, and then the first fine candidate of the greatest
\* score
FineBest(coarseBest, fine) ==
  IF \E f \in fine : NccGt(f.nxc, coarseBest.nxc) THEN FirstBest(fine) ELSE coarseBest

CoarseBest(xc) == FirstBest(Scored(xc, CoarseCandidates(xc)))

\* the reference result, [at, nxc]
ReferenceResult(xc) ==
  FineBest(CoarseBest(xc), Scored(xc, FineCandidates(xc, CoarseBest(xc).at)))

\* the search of xc returns the reference result and the attempt records it
ReturnsReference(xc, found, ref) ==
  /\ found.at = ref.at
  /\ found.nxc = ref.nxc
  /\ xc.lastXCorrScore = ref.nxc
  /\ ~NccBelow(ref.nxc, xc.nxcThreshold) => xc.delay = ref.at

\* the attempt that took the estimator to xc2 passed the energy gate
GatePassed(xc2) ==
  /\ ~QuietHistory(xc2.nearEndBuffer, xc2, xc2.txThresholdLin)
  /\ ~QuietHistory(xc2.farEndBuffer, xc2, xc2.rxThresholdLin)

\* C25: when the energy gate passes, the search returns the reference result:
\* the first coarse candidate (minDelay, minDelay + stepSize, ... below
\* bufferSize - minDelay) of the greatest score, unless a fine candidate
\* (max(minDelay, coarseBest - stepSize) + 12k below
\* min(bufferSize - minDelay, coarseBest + stepSize)) scores strictly more,
\* and then the first fine candidate of the greatest score; a tie never
\* replaces an earlier candidate.
C25_SearchReturnsReference ==
  [][(/\ Ran(ev', "timeAlignedSubtract")
      /\ AttemptDue(strategies.timeAlignedSubtract.xCorr)
      /\ GatePassed(strategies'.timeAlignedSubtract.xCorr)
      /\ CoarseCandidates(strategies'.timeAlignedSubtract.xCorr) # {})
       => ReturnsReference(strategies'.timeAlignedSubtract.xCorr,
                           XCorrHelper_search(strategies'.timeAlignedSubtract.xCorr),
                           ReferenceResult(strategies'.timeAlignedSubtract.xCorr))]_vars

\* an accepted result that the fine search found between two coarse
\* candidates, another candidate having the same score as an earlier one
C25_Witness ==
  LET xc == strategies.timeAlignedSubtract.xCorr
  IN /\ Ran(ev, "timeAlignedSubtract")
     /\ xc.foundXC
     /\ xc.delay = env.d
     /\ xc.delay \notin CoarseCandidates(xc)
     /\ xc.delay = ReferenceResult(xc).at
     /\ \E p, q \in Scored(xc, CoarseCandidates(xc)) : p.at < q.at /\ p.nxc = q.nxc

\* ------------------------------------------------------------------------
\* TrimSpec: the trimming of a measured response.  At 200 Hz the pre-echo
\* margin (5 ms) is one sample and the tail margin (10 ms) two.  The test
\* signal is a pulse of one or of three samples after 50 samples of silence;
\* the path is a single tap, a tap with a tail, or silent.
\* ------------------------------------------------------------------------
TrimRate == 200

TrimPulseWidths == {0, 2}

TrimSetupPayload(width) ==
  [mode |-> "rir",
   rir |-> [testSignalType |-> "dirac_square", diracPulseWidth |-> width,
            measurementDurationMs |-> 290]]

\* the delays of the path, all inside the impulse response (irLength 8)
TrimDelays == {0, 2, 4, 7}

TrimInit ==
  /\ \E d \in TrimDelays, shape \in PathShapes :
       env = [sampleRate |-> TrimRate, t |-> 0, d |-> d, shape |-> shape, frames |-> 0]
  /\ proc = NoisyFauxECProcessor_new
  /\ strategies = Strategies_new
  /\ alive = TRUE
  /\ ev = [op |-> "constructor", arg |-> <<>>, selected |-> <<>>, threw |-> FALSE,
           onFrame |-> <<>>, out |-> <<>>, test |-> <<>>, posted |-> <<>>]
  /\ hist = NoBatch
  /\ cnt = [calls |-> 0, msgs |-> 0]

TrimSetup ==
  /\ cnt.msgs = 0
  /\ \E width \in TrimPulseWidths : SetConfigs(TrimSetupPayload(width))

\* one render quantum of the measurement, and one of cancellation after it
TrimFrame ==
  /\ cnt.msgs > 0
  /\ cnt.calls < MaxTrimCalls
  /\ IF strategies.rir.rir.ready
       THEN ProcessCall(GateNearEnd, FarQuantum(env.t), FALSE)
       ELSE ProcessCall(MeasuredQuantum(strategies.rir.rir, env.t, env.d, env.shape),
                        FarQuantum(env.t), FALSE)
  /\ env' = [env EXCEPT !.t = @ + RenderQuantum, !.frames = @ + 1]

TrimNext == TrimSetup \/ TrimFrame

TrimSpec == TrimInit /\ [][TrimNext]_vars

\* the index of the last sample of ir whose magnitude exceeds 10% of the peak
LastAboveTenth(ir, peakValue) ==
  CHOOSE i \in DOMAIN ir :
    /\ 10 * Abs(ir[i]) > peakValue
    /\ \A j \in DOMAIN ir : j > i => 10 * Abs(ir[j]) <= peakValue

\* the trimmed response of h is the slice [start, end) of its full response
TrimmedIsSlice(h, start, end) ==
  /\ h.irDelayOffset = start
  /\ Len0(h.irTrimmed) = end - start
  /\ h.irTrimmed = L1Normalize([i \in 0..(end - start - 1) |-> h.ir[start + i]],
                               h.irSumBeforeNorm)
  /\ start <= h.peakIdx /\ h.peakIdx < end
  /\ start + Len0(h.irTrimmed) <= h.irLength

\* a measurement has completed on a recording that was not silence
MeasuredSound(h) == h.kind = "real" /\ h.ready /\ h.irAcquired /\ h.peakValue > 0

\* C26: after a non-silent measurement the trimmed response is the slice of
\* the full response from max(0, peakIndex - 5 ms of samples) to
\* min(irLength, (index of the last sample whose magnitude exceeds 10% of the
\* peak) + 10 ms of samples), also when no sample after the peak exceeds 10%
\* of the peak; the slice contains the peak and ends inside the response.
C26_TrimmedSlice ==
  LET h == strategies.rir.rir
  IN MeasuredSound(h)
       => TrimmedIsSlice(h, Max(0, h.peakIdx - MsToSamples(5)),
                         Min(h.irLength, LastAboveTenth(h.ir, h.peakValue) + MsToSamples(10)))

\* ------------------------------------------------------------------------
\* MlsSpec: the loop of _generateMLS, one iteration per step, for each order
\* that has a tap mask of its own.  env holds the loop's variables: the
\* register, the index of the next sample, and the number of samples of each
\* sign written so far.
\* ------------------------------------------------------------------------
MlsOrders == {10, 12, 14, 16}

MlsInit ==
  /\ \E order \in MlsOrders :
       env = [sampleRate |-> ControlRate, order |-> order, lfsr |-> 1, i |-> 0,
              plus |-> 0, minus |-> 0]
  /\ proc = NoisyFauxECProcessor_new
  /\ strategies = Strategies_new
  /\ alive = TRUE
  /\ ev = [op |-> "constructor", arg |-> <<>>, selected |-> <<>>, threw |-> FALSE,
           onFrame |-> <<>>, out |-> <<>>, test |-> <<>>, posted |-> <<>>]
  /\ hist = NoBatch
  /\ cnt = [calls |-> 0, msgs |-> 0]

\* for (i = 0; i < len; i++) { mls[i] = bit ? 0.5 : -0.5; lfsr >>= 1; if (bit) lfsr ^= tap }
MlsIteration ==
  /\ env.i < Shl1(env.order) - 1
  /\ env' = [env EXCEPT !.lfsr = LfsrStep(@, MlsTap(env.order)),
                        !.i = @ + 1,
                        !.plus = @ + (IF MlsSample(env.lfsr) > 0 THEN 1 ELSE 0),
                        !.minus = @ + (IF MlsSample(env.lfsr) < 0 THEN 1 ELSE 0)]
  /\ UNCHANGED <<proc, strategies, alive, ev, hist, cnt>>

MlsNext == MlsIteration

MlsSpec == MlsInit /\ [][MlsNext]_vars

\* C29: for each order n in {10, 12, 14, 16} the Galois shift register started
\* at 1 with that order's tap mask never reaches 0 and returns to 1 after
\* exactly 2^n - 1 steps and not before, so that it visits every one of the
\* 2^n - 1 non-zero states of n bits once; the sequence of length 2^n - 1 has
\* 2^(n-1) samples of +0.5 and 2^(n-1) - 1 samples of -0.5.
C29_MaximumLengthSequence ==
  /\ env.lfsr > 0
  /\ env.lfsr < Shl1(env.order)
  /\ (env.i > 0 /\ env.i < Shl1(env.order) - 1) => env.lfsr # 1
  /\ env.i = Shl1(env.order) - 1
       => /\ env.lfsr = 1
          /\ env.plus = Shl1(env.order - 1)
          /\ env.minus = Shl1(env.order - 1) - 1

\* the whole sequence of order 16 has been generated
C29_Witness ==
  /\ env.order = 16
  /\ env.i = Shl1(16) - 1
  /\ env.plus + env.minus = env.i

\* ------------------------------------------------------------------------
\* The permanence of the lock
\* ------------------------------------------------------------------------
\* the output of a frame is the subtraction at the strategy's delay, read
\* from the far-end history as the frame left it
SubtractsAligned(ta, f) ==
  LET readStart == JsMod(ta.writePos - f.nSamples - Min(ta.lastDelay, ta.bufferSize - 1)
                         + ta.bufferSize * 5, ta.bufferSize)
  IN \A i \in 0..(f.nSamples - 1) :
       f.out[i] = RoundDiv(FixedOne * f.nearEnd[i]
                             - ta.config.echoAttenuation
                                 * ta.farEndBuffer[JsMod(readStart + i, ta.bufferSize)],
                           FixedOne)

\* C30: once the lock flag is true, no frame, rejected update, mode switch or
\* reconfiguration (a change of echoTimeWindowSizeMs, which reallocates and
\* clears both histories, included) sets it back to false, and every later
\* frame of timeAlignedSubtract is the subtraction, never the silence that
\* precedes the first lock.
C30_LockIsPermanent ==
  [][strategies.timeAlignedSubtract.xCorr.foundXC
       => /\ strategies'.timeAlignedSubtract.xCorr.foundXC
          /\ Ran(ev', "timeAlignedSubtract")
               => SubtractsAligned(strategies'.timeAlignedSubtract, ev'.onFrame[1])]_vars

\* locked, the echo time window has since been changed and the histories
\* cleared: the one frame fed after that was not an update attempt, and its
\* output is not silence
C30_Witness ==
  LET xc == strategies.timeAlignedSubtract.xCorr
  IN /\ Ran(ev, "timeAlignedSubtract")
     /\ xc.foundXC
     /\ xc.echoTimeWindowSizeMs = 1000
     /\ xc.writePos = RenderQuantum
     /\ xc.frameCounter = 1
     /\ ~AllZero(ev.out, RenderQuantum)
====
